---- MODULE Spec2Model ----
(***************************************************************************)
(* Model of the step-sequencer audio engine, src/services/audioEngine.ts.  *)
(*                                                                         *)
(* Times are integers in milliseconds; the source keeps them in seconds as *)
(* floating point numbers (0.25 s = 250, 0.1 s = 100, 50 ms = 50).  The    *)
(* tempo values of the model divide 15000, so a step duration              *)
(* (60 / tempo) / 4 s = 15000 / tempo ms is an exact integer.              *)
(*                                                                         *)
(* JavaScript runs every handler to completion.  The scheduler's while     *)
(* loop is modelled one iteration per step, with pc = "sched" while the    *)
(* loop is running: no other handler, timer or clock step is enabled       *)
(* until the loop has left (pc = "idle").                                  *)
(***************************************************************************)
EXTENDS Integers, Sequences, FiniteSets, TLC

\* ------------------------------------------------------------------ bounds
MaxTime == 1150
MaxSched == 17
MaxUpdates == 1
MaxErrors == 2
MaxOverrides == 2
MaxHarmonics == 1
MaxCycles == 3
MaxPlayTime == 1900
MaxSessions == 2
StallLength == 300
MaxBuildLen == 3

\* ------------------------------------------------- constants of the source
Lookahead == 250
TimerInterval == 50
StartLatency == 100
DefaultTempo == 120
StepsPerPattern == 16
NotifyHorizon == 500
RebuildDelay == 50

\* The audio clock advances in steps of this size.
ClockSteps == {50}

\* A tempo value as pushed by the editor: a number, NaN, or nothing at all
\* (no melodic track 0, or a params object without the field).
Num(n) == [k |-> "num", v |-> n]
NaNValue == [k |-> "NaN", v |-> 0]
Undefined == [k |-> "undefined", v |-> 0]
TempoValues == {Num(200), Num(0), Num(-200), NaNValue, Undefined}

VARIABLES
    backend,            \* window.AudioContext || webkitAudioContext exists
    ctx,                \* this.ctx: "null" or "running"
    now,                \* ctx.currentTime, ms
    isPlaying,          \* this.isPlaying
    currentStepIndex,   \* this.currentStepIndex
    nextNoteTime,       \* this.nextNoteTime, ms
    timerID,            \* this.timerID: 0 is null, else a timer id
    timers,             \* pending setTimeout(scheduler) callbacks: [id, remaining]
    tempo,              \* this.synths[0]?.params.tempo
    pc,                 \* "idle", or "sched" inside the scheduler's while loop
    scheduled,          \* the scheduleStep(stepIndex, time) calls since the last start()
    errors,             \* console.error reports made by init()
    threw,              \* some call ended in an uncaught exception
    nUpdates,           \* number of updateState calls so far
    lastCall,           \* the public call made at this instant, with isPlaying and
                        \* currentStepIndex as they were before it
    trigKind,           \* the track a trigger is for: "bass" or "drum"
    trigStep,           \* the automation map of the step handed to the trigger
    trigGlobals,        \* the track's pushed params and effects
    voice,              \* the effective values the trigger used, or NoVoice
    periodicWaveCaches, \* this.periodicWaveCaches[0]: the built global wave, or NoWave
    lastCustomWaves,    \* this.lastCustomWaves[0]: the last global vector seen
    customWaveUpdatePending,  \* this.customWaveUpdatePending[0]: a rebuild timer is pending
    pendingHarmonics,   \* this.pendingHarmonics[0]: the vector the rebuild will use
    osc,                \* the oscillator of the last bass trigger: its type and wave
    chain,              \* synthChains[0]: lastDistortionValue, the curve and the
                        \* values its nodes' parameters were last set to
    master,             \* currentMasterVolume and the value masterGain.gain was set to
    voiceGraph,         \* the parameters of the nodes the last bass trigger created
    synths,             \* this.synths: per melodic track, steps[k].active for k = 0..15
    drums,              \* this.drums: per drum machine, pattern[type][k].active
    onStepChange,       \* this.onStepChange is a function (and not null)
    triggers,           \* the voices triggered since the last start(), in order
    notifyTimers,       \* pending setTimeout callbacks of scheduleStep, oldest first
    session,            \* a number that tells the current session's notifications
                        \* from the pending ones of earlier sessions
    notified,           \* the steps handed to onStepChange, in order, and when
    graph,              \* the instances setupRouting built: ctx, masterGain,
                        \* synthChains, drumMasterGains, drumChains
    fxCall,             \* the last write to the chain's delay feedback: its path
                        \* and the percentage it was given
    heap,               \* the harmonic arrays the editor made: object -> content
    synthParams,        \* this.synths[i].params: waveShape, customWave (an object
                        \* of the heap) and cutoff, per melodic track
    rebuildState,       \* the arrays periodicWaveCaches, lastCustomWaves,
                        \* customWaveUpdatePending and pendingHarmonics, whole
    waveCache,          \* this.waveCache: array object -> PeriodicWave
    rebuildTimers,      \* pending setTimeout callbacks of updateCustomWave, oldest
                        \* first: [index, remaining]
    lastEdit,           \* per track, the vector of the last updateCustomWave call
                        \* and the time since it, up to RebuildDelay
    builds,             \* per array object, the PeriodicWaves made from it
    lastCommit,         \* per track, the rebuild made at this instant: the vector
                        \* it used, the vector and the age lastEdit had then
    stepWave,           \* the vector of the step triggered at this instant and
                        \* the wave playVoice got for it
    busState,           \* currentMasterVolume, and of this.synths[0] and
                        \* this.drums[0] the volumes and the BD effects
    busGains,           \* the values the gain parameters are set or heading to:
                        \* masterGain, synthChains[0].output, drumMasterGains[0],
                        \* drumChains[0].BD.output, in 1/100
    drumChain,          \* drumChains[0].BD: lastDistortionValue, the curve of
                        \* its waveshaper, and the drive last asked for
    paramWrites,        \* the parameter writes of the call made at this instant
    chainDelay,         \* the values the delay parameters of drumChains[0].BD
                        \* were last set or scheduled to
    lastStep,           \* the last step scheduled for the bass drum lane since
                        \* the last push: its time, its active flag, its overrides
    fnArgs,             \* the arguments a helper of the editor is called with
    fnResult            \* what the helper returned, or NoResult before the call

engineVars == <<ctx, isPlaying, currentStepIndex, nextNoteTime, timerID, timers, tempo, pc>>
vars == <<backend, ctx, now, isPlaying, currentStepIndex, nextNoteTime, timerID,
          timers, tempo, pc, scheduled, errors, threw, nUpdates, lastCall,
          trigKind, trigStep, trigGlobals, voice,
          periodicWaveCaches, lastCustomWaves, customWaveUpdatePending,
          pendingHarmonics, osc, chain, master, voiceGraph, fxCall, graph,
          synths, drums, onStepChange, triggers, notifyTimers, session, notified,
          heap, synthParams, rebuildState, waveCache, rebuildTimers, lastEdit,
          builds, lastCommit, stepWave,
          busState, busGains, drumChain, paramWrites, chainDelay, lastStep,
          fnArgs, fnResult>>
schedVars == <<backend, ctx, now, isPlaying, currentStepIndex, nextNoteTime, timerID,
               timers, tempo, pc, scheduled, errors, threw, nUpdates, lastCall, graph,
               synths, drums, onStepChange, triggers, notifyTimers, session, notified>>
triggerVars == <<trigKind, trigStep, trigGlobals, voice>>
pushVars == <<synths, drums, onStepChange>>
playVars == <<pushVars, triggers, notifyTimers, session, notified>>
calmVars == <<backend, ctx, now, isPlaying, currentStepIndex, nextNoteTime, timerID,
              timers, tempo, pc, scheduled, errors, nUpdates, lastCall, graph,
              synths, drums, onStepChange, triggers, notifyTimers, session, notified>>
waveVars == <<periodicWaveCaches, lastCustomWaves, customWaveUpdatePending,
              pendingHarmonics, osc>>
fxVars == <<chain, master, voiceGraph, fxCall>>
soundVars == <<waveVars, fxVars>>
cacheVars == <<heap, synthParams, rebuildState, waveCache, rebuildTimers, lastEdit,
               builds, lastCommit, stepWave>>
busVars == <<busState, busGains, drumChain, paramWrites, chainDelay, lastStep>>
fnVars == <<fnArgs, fnResult>>
extraVars == <<cacheVars, busVars, fnVars>>

\* ----------------------------------------------------------------- helpers

\* (x) || 120 : 0, NaN and undefined are falsy, every other number is kept.
MasterTempo(t) == IF t.k = "num" /\ t.v # 0 THEN t.v ELSE DefaultTempo

\* (60.0 / masterTempo) / 4 seconds, in ms.
StepDuration(mt) == IF mt > 0 THEN 15000 \div mt ELSE -(15000 \div (-mt))

\* setTimeout hands out an id no pending timer has.
FreshTimerId == CHOOSE i \in 1..(Cardinality(timers) + 1) : \A t \in timers : t.id # i

\* A session number no pending and no delivered notification carries.
SessionsInUse ==
    {notifyTimers[i].session : i \in 1..Len(notifyTimers)}
      \cup {notified[i].session : i \in 1..Len(notified)}
FreshSession ==
    IF SessionsInUse = {} THEN 0
    ELSE 1 + CHOOSE m \in SessionsInUse : \A n \in SessionsInUse : n <= m

Called(op) ==
    lastCall' = [op |-> op, wasPlaying |-> isPlaying, wasIndex |-> currentStepIndex]
NoCall == [op |-> "none", wasPlaying |-> FALSE, wasIndex |-> 0]

Max(a, b) == IF a >= b THEN a ELSE b

\* ----------------------------------------------------------- setupRouting()
DrumTypes == {"BD", "SD", "CH", "OH", "CP"}

\* Before init(): no context, no master gain, no chains.
NoGraph == [gen |-> 0, masterGain |-> <<>>, synthChains |-> <<>>,
            drumMasterGains |-> <<>>, drumChains |-> <<>>]

\* The g-th context with the nodes and chains setupRouting makes in it; an
\* instance is known by what it is and the context it was made in.
setupRouting(g) ==
    [gen |-> g,
     masterGain |-> <<"masterGain", g>>,
     synthChains |-> [i \in 1..2 |-> <<"synthChain", i, g>>],
     drumMasterGains |-> [i \in 1..2 |-> <<"drumMasterGain", i, g>>],
     drumChains |-> [i \in 1..2 |-> [t \in DrumTypes |-> <<"drumChain", i, t, g>>]]]

\* -------------------------------------------------------------------- Init
\* The engine after construction; the backend is there or not.
EngineInit ==
    /\ backend \in BOOLEAN
    /\ ctx = "null"
    /\ now = 0
    /\ isPlaying = FALSE
    /\ currentStepIndex = 0
    /\ nextNoteTime = 0
    /\ timerID = 0
    /\ timers = {}
    /\ tempo = Undefined
    /\ pc = "idle"
    /\ scheduled = <<>>
    /\ errors = 0
    /\ threw = FALSE
    /\ nUpdates = 0
    /\ lastCall = NoCall
    /\ graph = NoGraph
    /\ synths = <<>>
    /\ drums = <<>>
    /\ onStepChange = FALSE
    /\ triggers = <<>>
    /\ notifyTimers = <<>>
    /\ session = 0
    /\ notified = <<>>

NoVoice == [k \in {} |-> 0]
NoGlobals == [params |-> NoVoice, effects |-> NoVoice]

\* A PeriodicWave is known by the imag coefficients it was built from; NoWave
\* is null.  A harmonic vector reference is the vector, or null.
NoWave == [ok |-> FALSE, imag |-> <<>>]
Wave(imag) == [ok |-> TRUE, imag |-> imag]
NoVector == [set |-> FALSE, h |-> <<>>]
Vector(h) == [set |-> TRUE, h |-> h]
NoOsc == [type |-> "none", wave |-> NoWave]

\* The wave caches after construction; no oscillator has been made.
WaveInit ==
    /\ periodicWaveCaches = NoWave
    /\ lastCustomWaves = NoVector
    /\ customWaveUpdatePending = FALSE
    /\ pendingHarmonics = NoVector
    /\ osc = NoOsc

\* Gains are in 1/10000, the delay time in milliseconds, lastDistortionValue
\* in percent, the curve is the k it was made with (0 for null).
\* An FXChain as its constructor leaves it, and the master gain after init()
\* (restoreState sets it to currentMasterVolume = 0.8).
FxInit ==
    /\ chain = [lastDistortionValue |-> Num(-999), curve |-> Num(0),
                delayTime |-> Num(0), delayFeedback |-> Num(0),
                delayDry |-> Num(10000), delayWet |-> Num(0), output |-> Num(10000)]
    /\ master = [currentMasterVolume |-> Num(8000), gain |-> Num(8000)]
    /\ voiceGraph = NoVoice
    /\ fxCall = [path |-> "none", feedback |-> Num(0)]

SoundInit == WaveInit /\ FxInit

\* The melodic tracks, and the harmonic arrays the editor has made.  Arrays
\* 1 and 2 are two objects with the same content.
Tracks == 1..2
VecIds == {1, 2}
NoVec == 0
VectorContent(v) == <<Num(1), NaNValue>>
NoEdit == [vec |-> NoVec, age |-> RebuildDelay]
NoCommit == [vec |-> NoVec, latest |-> NoVec, quiet |-> 0]
NoStepWave == [vec |-> NoVec, wave |-> NoWave]

\* The wave caches and the rebuild timers after construction: the arrays
\* hold null and false for both tracks, the WeakMap is empty.
CacheInit ==
    /\ heap = [v \in VecIds |-> VectorContent(v)]
    /\ synthParams = <<>>
    /\ rebuildState = [periodicWaveCaches |-> [i \in Tracks |-> NoWave],
                       lastCustomWaves |-> [i \in Tracks |-> NoVec],
                       customWaveUpdatePending |-> [i \in Tracks |-> FALSE],
                       pendingHarmonics |-> [i \in Tracks |-> NoVec]]
    /\ waveCache = [v \in {} |-> NoWave]
    /\ rebuildTimers = <<>>
    /\ lastEdit = [i \in Tracks |-> NoEdit]
    /\ builds = [v \in VecIds |-> 0]
    /\ lastCommit = [i \in Tracks |-> NoCommit]
    /\ stepWave = NoStepWave

\* The engine's volumes after construction: currentMasterVolume is 0.8,
\* synths and drums are empty, no node exists; a new FXChain has
\* lastDistortionValue -999 and a waveshaper without a curve.
NoGains == [masterGain |-> 0, synthOutput |-> 0, drumMasterGain |-> 0, drumOutput |-> 0]
NullCurve == [k |-> "null", v |-> 0]
NewFXChain == [lastDistortionValue |-> Num(-99900), curve |-> NullCurve,
               requested |-> Undefined]
NewDelay == [delayDry |-> Num(10000), delayWet |-> Num(0), delayTime |-> Num(0),
             delayFeedback |-> Num(0)]
NoStep == [time |-> -1, active |-> FALSE, automation |-> NoVoice]
BusInit ==
    /\ chainDelay = NewDelay
    /\ lastStep = NoStep
    /\ busState = [currentMasterVolume |-> 80, synths |-> <<>>, drums |-> <<>>]
    /\ busGains = NoGains
    /\ drumChain = NewFXChain
    /\ paramWrites = <<>>

\* No helper of the editor has been called.
NoArgs == [fn |-> "none"]
NoResult == [fn |-> "none"]
FnInit == fnArgs = NoArgs /\ fnResult = NoResult

ExtraInit == CacheInit /\ BusInit /\ FnInit

\* The engine after construction, whatever the editor's helpers are given.
EngineIdle ==
    /\ EngineInit
    /\ backend = TRUE
    /\ trigKind = "bass"
    /\ trigStep = NoVoice
    /\ trigGlobals = NoGlobals
    /\ voice = NoVoice
    /\ SoundInit
    /\ CacheInit
    /\ BusInit

Init ==
    /\ EngineInit
    /\ trigKind = "bass"
    /\ trigStep = NoVoice
    /\ trigGlobals = NoGlobals
    /\ voice = NoVoice
    /\ SoundInit
    /\ ExtraInit

\* ------------------------------------------------------------------ init()
\* this.ctx after init(): created when it was null and the backend exists.
CtxAfterInit == IF ctx = "null" /\ backend THEN "running" ELSE ctx

\* init() that builds a context and its routing on every call.
GraphAfterInit_rebuild == IF backend THEN setupRouting(graph.gen + 1) ELSE graph

\* The routing after init(): built when ctx was null and the backend exists.
GraphAfterInit == IF ctx = "null" /\ backend THEN setupRouting(graph.gen + 1) ELSE graph

\* console.error calls made by one init(): one whenever ctx is null and no
\* AudioContext class exists.
InitReports == IF ctx = "null" /\ ~backend THEN 1 ELSE 0

\* init(); without a backend it returns after the report.
init ==
    /\ errors + InitReports <= MaxErrors
    /\ ctx' = CtxAfterInit
    /\ graph' = GraphAfterInit
    /\ errors' = errors + InitReports
    /\ UNCHANGED <<isPlaying, currentStepIndex, nextNoteTime, timerID, timers,
                   tempo, pc, scheduled, threw, playVars>>

\* ----------------------------------------------------------------- start()
\* start() with no audio context after its init(): isPlaying and
\* currentStepIndex are written, then this.ctx!.currentTime reads a property
\* of null and the call ends in a TypeError.
startNoContext ==
    /\ isPlaying' = TRUE
    /\ currentStepIndex' = 0
    /\ threw' = TRUE
    /\ UNCHANGED <<nextNoteTime, timerID, timers, pc, scheduled, playVars>>

\* startSession without the reset of currentStepIndex.
startSession_resume ==
    /\ isPlaying' = TRUE
    /\ currentStepIndex' = currentStepIndex
    /\ nextNoteTime' = now + StartLatency
    /\ pc' = "sched"
    /\ scheduled' = <<>>
    /\ triggers' = <<>>
    /\ session' = FreshSession
    /\ UNCHANGED <<timerID, timers, threw, pushVars, notifyTimers, notified>>

\* start() of a stopped engine with a context: reset, then scheduler() is
\* entered (its guard !isPlaying || !ctx is false here).
startSession ==
    /\ isPlaying' = TRUE
    /\ currentStepIndex' = 0
    /\ nextNoteTime' = now + StartLatency
    /\ pc' = "sched"
    /\ scheduled' = <<>>
    /\ triggers' = <<>>
    /\ session' = FreshSession
    /\ UNCHANGED <<timerID, timers, threw, pushVars, notifyTimers, notified>>

\* start without the early return on isPlaying.
start_noGuard ==
    /\ errors + InitReports <= MaxErrors
    /\ ctx' = CtxAfterInit
    /\ graph' = GraphAfterInit
    /\ errors' = errors + InitReports
    /\ IF CtxAfterInit = "null" THEN startNoContext ELSE startSession
    /\ UNCHANGED tempo

start ==
    /\ errors + InitReports <= MaxErrors
    /\ ctx' = CtxAfterInit
    /\ graph' = GraphAfterInit
    /\ errors' = errors + InitReports
    /\ IF isPlaying
         THEN UNCHANGED <<isPlaying, currentStepIndex, nextNoteTime, timerID,
                          timers, pc, threw, scheduled, playVars>>
         ELSE IF CtxAfterInit = "null" THEN startNoContext ELSE startSession
    /\ UNCHANGED tempo

\* ------------------------------------------------------------------ stop()
\* stop that leaves the lookahead timer pending.
stop_keepsTimer ==
    /\ isPlaying' = FALSE
    /\ UNCHANGED <<timerID, timers>>
    /\ UNCHANGED <<playVars, graph, ctx, currentStepIndex, nextNoteTime, tempo, pc, scheduled,
                   errors, threw>>

\* stop that flips isPlaying instead of clearing it.
stop_flips ==
    /\ isPlaying' = ~isPlaying
    /\ IF timerID # 0
         THEN /\ timers' = {t \in timers : t.id # timerID}
              /\ timerID' = 0
         ELSE UNCHANGED <<timerID, timers>>
    /\ UNCHANGED <<playVars, graph, ctx, currentStepIndex, nextNoteTime, tempo, pc, scheduled,
                   errors, threw>>

\* stop that returns early while the engine is playing (an inverted guard).
stop_invertedGuard ==
    /\ IF isPlaying
         THEN UNCHANGED <<isPlaying, timerID, timers>>
         ELSE /\ isPlaying' = FALSE
              /\ IF timerID # 0
                   THEN /\ timers' = {t \in timers : t.id # timerID}
                        /\ timerID' = 0
                   ELSE UNCHANGED <<timerID, timers>>
    /\ UNCHANGED <<playVars, graph, ctx, currentStepIndex, nextNoteTime, tempo, pc, scheduled,
                   errors, threw>>

stop ==
    /\ isPlaying' = FALSE
    /\ IF timerID # 0
         THEN /\ timers' = {t \in timers : t.id # timerID}
              /\ timerID' = 0
         ELSE UNCHANGED <<timerID, timers>>
    /\ UNCHANGED <<playVars, graph, ctx, currentStepIndex, nextNoteTime, tempo, pc, scheduled, errors, threw>>

\* ---------------------------------------------------------------- toggle()
toggle == IF isPlaying THEN stop ELSE start

\* ----------------------------------------------------------- updateState()
\* Replaces the pushed state; of it the model keeps the tempo of track 0.
\* updateState that re-times the pending step with the new tempo.
updateState_retime(t, s, d, cb) ==
    /\ nUpdates < MaxUpdates
    /\ tempo' = t
    /\ synths' = s
    /\ drums' = d
    /\ onStepChange' = cb
    /\ nUpdates' = nUpdates + 1
    /\ nextNoteTime' = nextNoteTime - StepDuration(MasterTempo(tempo))
                                    + StepDuration(MasterTempo(t))
    /\ UNCHANGED <<triggers, notifyTimers, session, notified,
                   graph, ctx, isPlaying, currentStepIndex, timerID,
                   timers, pc, scheduled, errors, threw>>

updateState(t, s, d, cb) ==
    /\ nUpdates < MaxUpdates
    /\ tempo' = t
    /\ synths' = s
    /\ drums' = d
    /\ onStepChange' = cb
    /\ nUpdates' = nUpdates + 1
    /\ UNCHANGED <<triggers, notifyTimers, session, notified,
                   graph, ctx, isPlaying, currentStepIndex, nextNoteTime, timerID,
                   timers, pc, scheduled, errors, threw>>

\* ------------------------------------------------------------- scheduler()
\* The voices scheduleStep can trigger, in the order of its forEach loops:
\* playVoice per melodic track, then per drum machine playBD, playSD,
\* playHat(closed), playHat(open), playClap.
DrumOrder == <<"BD", "SD", "CH", "OH", "CP">>
Voices ==
    [i \in 1..Len(synths) |-> [voice |-> "bass", track |-> i]]
      \o [j \in 1..(5 * Len(drums)) |->
            [voice |-> DrumOrder[((j - 1) % 5) + 1], track |-> ((j - 1) \div 5) + 1]]

\* The steps of the voice's track (or lane).
StepsOf(v) == IF v.voice = "bass" THEN synths[v.track] ELSE drums[v.track][v.voice]

\* steps[stepIndex] is undefined: the pattern has no entry at the index.
Missing(v, stepIndex) == stepIndex + 1 > Len(StepsOf(v))

\* The voices whose step scheduleStep reads without a guard: a drum lane is
\* read as pattern.BD[stepIndex].active, which throws a TypeError when the
\* lane has no entry; a melodic step is read as (step && step.active).
Throwing(stepIndex) ==
    {i \in 1..Len(Voices) : Voices[i].voice # "bass" /\ Missing(Voices[i], stepIndex)}

\* scheduleStep(stepIndex, ..) ends in a TypeError: with a listener, it
\* reaches the drum loop and a lane there has no entry at the index.
stepThrows(stepIndex) == onStepChange /\ Throwing(stepIndex) # {}

\* The voices scheduleStep gets to: all of them, or those before the first
\* lane that throws.
VoicesReached(stepIndex) ==
    IF Throwing(stepIndex) = {} THEN Voices
    ELSE SubSeq(Voices, 1, (CHOOSE i \in Throwing(stepIndex) :
                               \A j \in Throwing(stepIndex) : i <= j) - 1)

\* step.active of the voice's track (or lane) at stepIndex
Active(v, stepIndex) == ~Missing(v, stepIndex) /\ StepsOf(v)[stepIndex + 1]

\* The triggers of one scheduleStep call, the seq-th of its session.
StepTriggers(stepIndex, time, seq) ==
    LET due == SelectSeq(VoicesReached(stepIndex), LAMBDA v : Active(v, stepIndex))
    IN  [k \in 1..Len(due) |->
           [voice |-> due[k].voice, track |-> due[k].track,
            idx |-> stepIndex, time |-> time, seq |-> seq]]

\* scheduleStep that notifies at once, whenever the step is due.
notifyDelay_immediate(timeUntilNote) == 0

\* The delay of the notification: Math.max(0, timeUntilNote)
notifyDelay(timeUntilNote) == Max(0, timeUntilNote)

\* scheduleStep(stepIndex, time).  The call is recorded with the tempo of the
\* tick that made it.  Without a listener it returns at once; with one it
\* sets the notification timer, if the step is less than 500 ms away, and
\* triggers the active voices.
scheduleStep(stepIndex, time) ==
    /\ scheduled' = Append(scheduled,
          [idx |-> stepIndex, time |-> time, tempo |-> MasterTempo(tempo)])
    /\ IF ~onStepChange
         THEN UNCHANGED <<triggers, notifyTimers>>
         ELSE /\ notifyTimers' =
                   IF time - now < NotifyHorizon
                     THEN Append(notifyTimers,
                            [step |-> stepIndex, time |-> time,
                             due |-> now + notifyDelay(time - now),
                             seq |-> Len(scheduled) + 1, session |-> session])
                     ELSE notifyTimers
              /\ triggers' = triggers \o StepTriggers(stepIndex, time, Len(scheduled) + 1)

\* schedulerLoop that times the next step from the clock, not from the grid.
schedulerLoop_drift ==
    /\ pc = "sched"
    /\ nextNoteTime < now + Lookahead
    /\ Len(scheduled) < MaxSched
    /\ scheduleStep(currentStepIndex, nextNoteTime)
    /\ nextNoteTime' = Max(now, nextNoteTime) + StepDuration(MasterTempo(tempo))
    /\ currentStepIndex' = (currentStepIndex + 1) % StepsPerPattern
    /\ UNCHANGED <<pushVars, session, notified,
                   backend, graph, ctx, now, isPlaying, timerID, timers, tempo, pc,
                   errors, threw, nUpdates, lastCall, triggerVars, soundVars, extraVars>>

\* schedulerLoop that counts steps without wrapping at the pattern length.
schedulerLoop_noWrap ==
    /\ pc = "sched"
    /\ nextNoteTime < now + Lookahead
    /\ Len(scheduled) < MaxSched
    /\ scheduleStep(currentStepIndex, nextNoteTime)
    /\ nextNoteTime' = nextNoteTime + StepDuration(MasterTempo(tempo))
    /\ currentStepIndex' = currentStepIndex + 1
    /\ UNCHANGED <<pushVars, session, notified,
                   backend, graph, ctx, now, isPlaying, timerID, timers, tempo, pc,
                   errors, threw, nUpdates, lastCall, triggerVars, soundVars, extraVars>>

\* One iteration of  while (nextNoteTime < ctx.currentTime + lookahead).
\* When scheduleStep throws, the exception leaves scheduler(): nothing after
\* the call runs, neither the two assignments nor the setTimeout.
schedulerLoop ==
    /\ pc = "sched"
    /\ nextNoteTime < now + Lookahead
    /\ Len(scheduled) < MaxSched
    /\ scheduleStep(currentStepIndex, nextNoteTime)
    /\ IF stepThrows(currentStepIndex)
         THEN /\ threw' = TRUE
              /\ pc' = "idle"
              /\ UNCHANGED <<nextNoteTime, currentStepIndex>>
         ELSE /\ nextNoteTime' = nextNoteTime + StepDuration(MasterTempo(tempo))
              /\ currentStepIndex' = (currentStepIndex + 1) % StepsPerPattern
              /\ UNCHANGED <<pc, threw>>
    /\ UNCHANGED <<pushVars, session, notified,
                   backend, graph, ctx, now, isPlaying, timerID, timers, tempo,
                   errors, nUpdates, lastCall, triggerVars, soundVars, extraVars>>

\* The loop is left: timerID = setTimeout(scheduler, 50).
schedulerRearm ==
    /\ pc = "sched"
    /\ ~(nextNoteTime < now + Lookahead)
    /\ timerID' = FreshTimerId
    /\ timers' = timers \cup {[id |-> FreshTimerId, remaining |-> TimerInterval]}
    /\ pc' = "idle"
    /\ UNCHANGED <<playVars, backend, graph, ctx, now, isPlaying, currentStepIndex, nextNoteTime,
                   tempo, scheduled, errors, threw, nUpdates, lastCall, triggerVars, soundVars, extraVars>>

\* A pending timer fires, once its delay has passed or any time later, and
\* calls scheduler(), which returns at once if (!isPlaying || !ctx).
timerFires(t) ==
    /\ pc = "idle"
    /\ t.remaining = 0
    /\ timers' = timers \ {t}
    /\ pc' = IF ~isPlaying \/ ctx = "null" THEN "idle" ELSE "sched"
    /\ lastCall' = NoCall
    /\ UNCHANGED <<playVars, backend, graph, ctx, now, isPlaying, currentStepIndex, nextNoteTime,
                   timerID, tempo, scheduled, errors, threw, nUpdates, triggerVars, soundVars, extraVars>>

\* ------------------------------------------------------------- environment
AdvanceClockTo(d, limit) ==
    /\ pc = "idle"
    /\ now + d <= limit
    /\ now' = now + d
    /\ timers' = {[id |-> t.id, remaining |-> Max(0, t.remaining - d)] : t \in timers}
    /\ lastCall' = NoCall
    /\ UNCHANGED <<playVars, backend, graph, ctx, isPlaying, currentStepIndex, nextNoteTime,
                   timerID, tempo, pc, scheduled, errors, threw, nUpdates, triggerVars, soundVars, extraVars>>

AdvanceClock(d) == AdvanceClockTo(d, MaxTime)

CallInit == pc = "idle" /\ init /\ Called("init") /\ UNCHANGED <<backend, now, nUpdates, triggerVars, soundVars, extraVars>>
CallStart == pc = "idle" /\ start /\ Called("start") /\ UNCHANGED <<backend, now, nUpdates, triggerVars, soundVars, extraVars>>
CallStop == pc = "idle" /\ stop /\ Called("stop") /\ UNCHANGED <<backend, now, nUpdates, triggerVars, soundVars, extraVars>>
CallToggle == pc = "idle" /\ toggle /\ Called("toggle") /\ UNCHANGED <<backend, now, nUpdates, triggerVars, soundVars, extraVars>>
CallUpdateState ==
    /\ pc = "idle"
    /\ \E t \in TempoValues : updateState(t, synths, drums, onStepChange)
    /\ Called("updateState")
    /\ UNCHANGED <<backend, now, triggerVars, soundVars, extraVars>>
TimerFires == \E t \in timers : timerFires(t)
Tick == \E d \in ClockSteps : AdvanceClock(d)

Next ==
    \/ CallInit
    \/ CallStart
    \/ CallStop
    \/ CallToggle
    \/ CallUpdateState
    \/ schedulerLoop
    \/ schedulerRearm
    \/ TimerFires
    \/ Tick

Spec == Init /\ [][Next]_vars

\* ------------------------------------------------ per-step automation
\* A step's automation is a map from the keys it overrides to their values;
\* a step without an automation object overrides nothing.
BassKeys == {"cutoff", "resonance", "envMod", "decay", "accent", "tuning", "drive",
             "delayMix", "delayTime", "delayFeedback"}
DrumKeys == {"volume", "tuning", "decay", "pan", "cutoff", "resonance", "distortion",
             "delayMix", "delayTime", "delayFeedback"}
OverrideValues == {0, 35}
Automations(keys) ==
    UNION {[S -> OverrideValues] : S \in {T \in SUBSET keys : Cardinality(T) <= MaxOverrides}}

\* Pushed globals of a track.  For a drum track params.vol is the volXX field
\* of the instrument that is triggered.
SynthParamChoices ==
    {[cutoff |-> 50, resonance |-> 60, envMod |-> 40, decay |-> 30, accent |-> 70, tuning |-> -10],
     [cutoff |-> 0, resonance |-> 0, envMod |-> 0, decay |-> 0, accent |-> 0, tuning |-> 0]}
DrumParamChoices == {[vol |-> 80], [vol |-> 0]}
EffectChoices ==
    {[distortion |-> 20, delayTime |-> 25, delayFeedback |-> 45, delayMix |-> 15],
     [distortion |-> 100, delayTime |-> 0, delayFeedback |-> 0, delayMix |-> 0]}

\* step.automation?.key ?? g
Coalesce(automation, key, g) == IF key \in DOMAIN automation THEN automation[key] ELSE g

\* getDrumParam(step, param, defaultVal)
getDrumParam(automation, param, defaultVal) ==
    IF param \in DOMAIN automation THEN automation[param] ELSE defaultVal

\* The values playVoice resolves for a bass step.  drive is the percentage
\* behind driveLevel: the override, or 100 for driveLevel = 1.0.
playVoice(automation, globalParams, globalEffects) ==
    [cutoff |-> Coalesce(automation, "cutoff", globalParams.cutoff),
     resonance |-> Coalesce(automation, "resonance", globalParams.resonance),
     envMod |-> Coalesce(automation, "envMod", globalParams.envMod),
     decay |-> Coalesce(automation, "decay", globalParams.decay),
     tuning |-> Coalesce(automation, "tuning", globalParams.tuning),
     accent |-> Coalesce(automation, "accent", globalParams.accent),
     delayMix |-> Coalesce(automation, "delayMix", globalEffects.delayMix),
     delayTime |-> Coalesce(automation, "delayTime", globalEffects.delayTime),
     delayFeedback |-> Coalesce(automation, "delayFeedback", globalEffects.delayFeedback),
     drive |-> IF "drive" \in DOMAIN automation THEN automation["drive"] ELSE 100]

\* The values a drum program resolves: applyDrumAutomation for the chain,
\* getDrumParam in the program and in connectVoiceToChain.
playDrum(automation, params, globalEffects) ==
    [delayMix |-> Coalesce(automation, "delayMix", globalEffects.delayMix),
     delayTime |-> Coalesce(automation, "delayTime", globalEffects.delayTime),
     delayFeedback |-> Coalesce(automation, "delayFeedback", globalEffects.delayFeedback),
     distortion |-> Coalesce(automation, "distortion", globalEffects.distortion),
     tuning |-> getDrumParam(automation, "tuning", 0),
     decay |-> getDrumParam(automation, "decay", 50),
     volume |-> getDrumParam(automation, "volume", params.vol),
     pan |-> getDrumParam(automation, "pan", 0),
     cutoff |-> getDrumParam(automation, "cutoff", 100),
     resonance |-> getDrumParam(automation, "resonance", 0)]

\* The step editor's getGlobalValue: the value a bass track shows as the
\* global one of an automatable parameter.
getGlobalValue(globals, key) ==
    CASE key = "drive" -> globals.effects.distortion
      [] key \in {"delayMix", "delayTime", "delayFeedback"} -> globals.effects[key]
      [] OTHER -> globals.params[key]

\* The drum editor's getGlobalValue, for the selected instrument.
getGlobalValueDrum(globals, key) ==
    CASE key = "volume" -> globals.params.vol
      [] key = "tuning" -> 0
      [] key = "decay" -> 50
      [] key = "pan" -> 0
      [] key = "cutoff" -> 100
      [] key = "resonance" -> 0
      [] OTHER -> globals.effects[key]

\* A step of either kind with its track's globals, not yet triggered, in an
\* initialised and stopped engine.
InitResolve ==
    /\ backend = TRUE
    /\ ctx = "running"
    /\ now = 0
    /\ isPlaying = FALSE
    /\ currentStepIndex = 0
    /\ nextNoteTime = 0
    /\ timerID = 0
    /\ timers = {}
    /\ tempo = Undefined
    /\ pc = "idle"
    /\ scheduled = <<>>
    /\ errors = 0
    /\ threw = FALSE
    /\ nUpdates = 0
    /\ lastCall = NoCall
    /\ graph = setupRouting(1)
    /\ synths = <<>>
    /\ drums = <<>>
    /\ onStepChange = FALSE
    /\ triggers = <<>>
    /\ notifyTimers = <<>>
    /\ session = 0
    /\ notified = <<>>
    /\ trigKind \in {"bass", "drum"}
    /\ trigStep \in Automations(IF trigKind = "bass" THEN BassKeys ELSE DrumKeys)
    /\ trigGlobals \in
         {[params |-> q, effects |-> e] :
            q \in (IF trigKind = "bass" THEN SynthParamChoices ELSE DrumParamChoices),
            e \in EffectChoices}
    /\ voice = NoVoice
    /\ SoundInit
    /\ ExtraInit

TriggerBass ==
    /\ ctx # "null"
    /\ trigKind = "bass"
    /\ voice = NoVoice
    /\ voice' = playVoice(trigStep, trigGlobals.params, trigGlobals.effects)
    /\ UNCHANGED <<schedVars, trigKind, trigStep, trigGlobals, soundVars, extraVars>>

TriggerDrum ==
    /\ ctx # "null"
    /\ trigKind = "drum"
    /\ voice = NoVoice
    /\ voice' = playDrum(trigStep, trigGlobals.params, trigGlobals.effects)
    /\ UNCHANGED <<schedVars, trigKind, trigStep, trigGlobals, soundVars, extraVars>>

NextResolve ==
    \/ TriggerBass
    \/ TriggerDrum

SpecResolve == InitResolve /\ [][NextResolve]_vars

\* ------------------------------------------------------ additive waveform
\* A harmonic amplitude is a number, NaN or an infinity.
Infinity == [k |-> "Infinity", v |-> 0]
HarmonicValues == {Num(1), NaNValue, Infinity}

\* The harmonic vectors the editor or a loaded project can hand over.
HarmonicVectors == UNION {[1..n -> HarmonicValues] : n \in 0..MaxHarmonics}

WaveShapes == {"sawtooth", "square", "custom"}

\* automation objects of a step, of their waveShape and customWave keys
WaveAutomations ==
    {NoVoice}
      \cup {[waveShape |-> w] : w \in WaveShapes}
      \cup {[customWave |-> h] : h \in HarmonicVectors}
      \cup {[waveShape |-> w, customWave |-> h] : w \in WaveShapes, h \in HarmonicVectors}

\* The imag array filled from index 0, with no DC bin in front.
ImagOf_noDC(h) == [i \in 1..Len(h) |-> IF h[i] = NaNValue THEN Num(0) ELSE h[i]] \o <<Num(0)>>

\* imag[i + 1] = isNaN(h) ? 0 : h, behind the DC bin imag[0] = 0
ImagOf(h) == <<Num(0)>> \o [i \in 1..Len(h) |-> IF h[i] = NaNValue THEN Num(0) ELSE h[i]]

\* ctx.createPeriodicWave takes sequence<float>: a non-finite coefficient is
\* a TypeError.
CreateThrows(imag) == \E i \in 1..Len(imag) : imag[i] = Infinity

\* createPeriodicWaveFromHarmonics that validates nothing and catches nothing.
createPeriodicWaveFromHarmonics_unchecked(h) ==
    IF ctx = "null" THEN NoWave ELSE Wave(ImagOf(h))

\* createPeriodicWaveFromHarmonics(harmonics): null for no context, for an
\* empty vector and when createPeriodicWave throws (caught and logged).
createPeriodicWaveFromHarmonics(h) ==
    IF ctx = "null" THEN NoWave
    ELSE IF Len(h) < 1 THEN NoWave
    ELSE IF CreateThrows(ImagOf(h)) THEN NoWave
    ELSE Wave(ImagOf(h))

Sawtooth == [type |-> "sawtooth", wave |-> NoWave]

\* The oscillator playVoice sets up: osc.setPeriodicWave(w) or osc.type = shape.
playVoiceOsc(automation, globalParams, cache) ==
    LET waveShape == Coalesce(automation, "waveShape", globalParams.waveShape)
    IN  IF "customWave" \in DOMAIN automation /\ Len(automation.customWave) > 0
          THEN LET customWave == createPeriodicWaveFromHarmonics(automation.customWave)
               IN  IF customWave.ok THEN [type |-> "custom", wave |-> customWave]
                                    ELSE Sawtooth
          ELSE IF waveShape = "custom"
                 THEN IF cache.ok THEN [type |-> "custom", wave |-> cache]
                                  ELSE Sawtooth
                 ELSE [type |-> waveShape, wave |-> NoWave]

\* updateCustomWave(0, harmonics): the vector is kept for a rebuild 50 ms
\* later; a rebuild that is already pending is not set up again.
updateCustomWave(h) ==
    /\ pendingHarmonics' = Vector(h)
    /\ customWaveUpdatePending' = TRUE
    /\ lastCustomWaves' = Vector(h)

\* The part of updateState for the waveform of melodic track 0, with a
\* context: a global vector other than the last one seen is rebuilt when
\* the global shape is 'custom'.
updateStateWave(shape, h) ==
    /\ ctx # "null"
    /\ trigGlobals' = [trigGlobals EXCEPT !.params = [waveShape |-> shape, customWave |-> h]]
    /\ IF shape = "custom" /\ Vector(h) # lastCustomWaves
         THEN updateCustomWave(h)
         ELSE UNCHANGED <<pendingHarmonics, customWaveUpdatePending, lastCustomWaves>>
    /\ UNCHANGED <<periodicWaveCaches, osc, trigKind, trigStep, voice, schedVars, fxVars, extraVars>>

\* The rebuild timer fires: applyCustomWave(0), then the flag is cleared.
applyCustomWave ==
    /\ customWaveUpdatePending
    /\ periodicWaveCaches' =
         IF ctx = "null" \/ ~pendingHarmonics.set
           THEN periodicWaveCaches
           ELSE createPeriodicWaveFromHarmonics(pendingHarmonics.h)
    /\ customWaveUpdatePending' = FALSE
    /\ UNCHANGED <<pendingHarmonics, lastCustomWaves, osc, triggerVars, schedVars, fxVars, extraVars>>

\* A bass step of track 0 is triggered: the waveform part of playVoice.
TriggerWave ==
    /\ ctx # "null"
    /\ trigGlobals.params # NoVoice
    /\ \E a \in WaveAutomations :
         /\ trigStep' = a
         /\ osc' = playVoiceOsc(a, trigGlobals.params, periodicWaveCaches)
    /\ UNCHANGED <<periodicWaveCaches, lastCustomWaves, customWaveUpdatePending,
                   pendingHarmonics, trigKind, trigGlobals, voice, schedVars, fxVars, extraVars>>

PushWave == \E shape \in WaveShapes, h \in HarmonicVectors : updateStateWave(shape, h)

\* An initialised engine, nothing pushed yet.
InitWave ==
    /\ backend = TRUE
    /\ ctx = "running"
    /\ now = 0
    /\ isPlaying = FALSE
    /\ currentStepIndex = 0
    /\ nextNoteTime = 0
    /\ timerID = 0
    /\ timers = {}
    /\ tempo = Undefined
    /\ pc = "idle"
    /\ scheduled = <<>>
    /\ errors = 0
    /\ threw = FALSE
    /\ nUpdates = 0
    /\ lastCall = NoCall
    /\ graph = setupRouting(1)
    /\ synths = <<>>
    /\ drums = <<>>
    /\ onStepChange = FALSE
    /\ triggers = <<>>
    /\ notifyTimers = <<>>
    /\ session = 0
    /\ notified = <<>>
    /\ trigKind = "bass"
    /\ trigStep = NoVoice
    /\ trigGlobals = NoGlobals
    /\ voice = NoVoice
    /\ SoundInit
    /\ ExtraInit

NextWave ==
    \/ PushWave
    \/ applyCustomWave
    \/ TriggerWave

SpecWave == InitWave /\ [][NextWave]_vars

\* ----------------------------------------------------------- effects chain
\* Percentages as they can be pushed: in range, out of range, or NaN.
PercentValues == {Num(0), Num(100), Num(150), NaNValue}

\* JavaScript arithmetic on a number or NaN.
isNaN(x) == x.k # "num"
Times(x, m) == IF isNaN(x) THEN NaNValue ELSE Num(x.v * m)
MathMax(n, x) == IF isNaN(x) THEN NaNValue ELSE Num(IF x.v > n THEN x.v ELSE n)
MathMin(n, x) == IF isNaN(x) THEN NaNValue ELSE Num(IF x.v < n THEN x.v ELSE n)
OneMinus(x) == IF isNaN(x) THEN NaNValue ELSE Num(10000 - x.v)

\* The writes of one handler, in order, as [param, value].  An AudioParam
\* takes a float: setting it to NaN is a TypeError, which ends the handler
\* with the writes before it done.
FirstThrow(writes) ==
    IF \E i \in 1..Len(writes) : isNaN(writes[i].value)
      THEN CHOOSE i \in 1..Len(writes) :
             /\ isNaN(writes[i].value)
             /\ \A j \in 1..(i - 1) : ~isNaN(writes[j].value)
      ELSE Len(writes) + 1
Throws(writes) == FirstThrow(writes) <= Len(writes)
Reached(writes, f) == \E i \in 1..(FirstThrow(writes) - 1) : writes[i].param = f
ValueWritten(writes, f) ==
    writes[CHOOSE i \in 1..(FirstThrow(writes) - 1) : writes[i].param = f].value
Written(nodes, writes) ==
    [f \in DOMAIN nodes |->
        IF Reached(writes, f) THEN ValueWritten(writes, f) ELSE nodes[f]]

\* update() with the 0.95 factor left out of the feedback gain.
delayFeedbackGain_unscaled(fbPercent) == Times(fbPercent, 100)

\* FXChain.update: fb = (params.delayFeedback / 100) * 0.95
delayFeedbackGain(fbPercent) == Times(fbPercent, 95)

\* FXChain.update, the delay writes: time, feedback, dry, wet.
updateWrites(params) ==
    <<[param |-> "delayTime", value |-> MathMax(10, Times(params.delayTime, 10))],
      [param |-> "delayFeedback", value |-> delayFeedbackGain(params.delayFeedback)],
      [param |-> "delayDry", value |-> OneMinus(Times(params.delayMix, 100))],
      [param |-> "delayWet", value |-> Times(params.delayMix, 100)]>>

\* FXChain.update, the distortion: a NaN amount counts as 0; the curve is
\* remade when the amount differs from the last one by more than 0.1.
updateDistortion(c, params) ==
    LET distAmount == IF isNaN(params.distortion) THEN Num(0) ELSE params.distortion
    IN  IF distAmount.v # c.lastDistortionValue.v
          THEN [c EXCEPT !.curve = IF distAmount.v <= 0 THEN Num(0)
                                                        ELSE Times(distAmount, 5),
                         !.lastDistortionValue = distAmount]
          ELSE c

\* scheduleDelayMix, scheduleDelayTime, scheduleDelayFeedback
scheduleDelayMix(mixPercent) == Times(MathMax(0, MathMin(100, mixPercent)), 100)
scheduleDelayTime(timePercent) == MathMax(10, Times(timePercent, 10))
scheduleDelayFeedback(fbPercent) == MathMin(9500, Times(fbPercent, 95))

\* The part of updateState for the chain of melodic track 0, with a context:
\* chain.update(effects), then the chain's output gain from params.volume
\* (0.7 for NaN).  The voice of the last trigger has ended by then.
updateStateFx(s) ==
    /\ ctx # "null"
    /\ trigGlobals' = s
    /\ trigStep' = NoVoice
    /\ voiceGraph' = NoVoice
    /\ LET vol == IF isNaN(s.params.volume) THEN Num(7000)
                                            ELSE Times(s.params.volume, 100)
           writes == updateWrites(s.effects) \o <<[param |-> "output", value |-> vol]>>
       IN  /\ chain' = Written(updateDistortion(chain, s.effects), writes)
           /\ threw' = (threw \/ Throws(writes))
           /\ fxCall' = IF Reached(writes, "delayFeedback")
                          THEN [path |-> "update", feedback |-> s.effects.delayFeedback]
                          ELSE fxCall
    /\ UNCHANGED <<master, trigKind, voice, waveVars, calmVars, extraVars>>

\* setMasterVolume(volume): currentMasterVolume = Math.max(0, volume / 100),
\* then the master gain is set to it.
setMasterVolume(volume) ==
    /\ LET v == MathMax(0, Times(volume, 100))
       IN  /\ master' = [currentMasterVolume |-> v,
                         gain |-> IF ctx # "null" /\ ~isNaN(v) THEN v ELSE master.gain]
           /\ threw' = (threw \/ (ctx # "null" /\ isNaN(v)))
    /\ UNCHANGED <<chain, voiceGraph, fxCall, triggerVars, waveVars, calmVars, extraVars>>

\* The parameters playVoice writes for a step without the accent flag, in
\* the order of the code: the chain's delay, then the voice's own nodes.
\* frequency is the cutoff position safeCutoff behind cutoffFreq, Q is in
\* 1/100, envelope the sweep above cutoffFreq in 1/10 Hz, decay is decayTime
\* in ms, gain the level of the amplitude envelope.
playVoiceWrites(automation, globalParams, globalEffects) ==
    LET r == playVoice(automation, globalParams, globalEffects)
        safeCutoff == MathMax(0, MathMin(100, r.cutoff))
        driveLevel == IF "drive" \in DOMAIN automation
                        THEN Times(automation["drive"], 100) ELSE Num(10000)
    IN  <<[param |-> "delayDry", value |-> OneMinus(scheduleDelayMix(r.delayMix))],
          [param |-> "delayWet", value |-> scheduleDelayMix(r.delayMix)],
          [param |-> "delayTime", value |-> scheduleDelayTime(r.delayTime)],
          [param |-> "delayFeedback", value |-> scheduleDelayFeedback(r.delayFeedback)],
          [param |-> "detune", value |-> r.tuning],
          [param |-> "frequency", value |-> safeCutoff],
          [param |-> "Q", value |-> Times(r.resonance, 25)],
          [param |-> "envelope",
           value |-> IF isNaN(safeCutoff) THEN NaNValue ELSE Times(r.envMod, 700)],
          [param |-> "decay",
           value |-> IF isNaN(safeCutoff) \/ isNaN(r.decay)
                       THEN NaNValue ELSE Num(100 + r.decay.v * 5)],
          [param |-> "gain", value |-> driveLevel]>>

VoiceParams == {"detune", "frequency", "Q", "envelope", "decay", "gain"}

\* A bass step of track 0 is triggered: the parameter writes of playVoice.
playVoiceFx(automation) ==
    /\ ctx # "null"
    /\ trigGlobals.params # NoVoice
    /\ trigStep' = automation
    /\ LET writes == playVoiceWrites(automation, trigGlobals.params, trigGlobals.effects)
       IN  /\ chain' = Written(chain, writes)
           /\ voiceGraph' = [f \in {g \in VoiceParams : Reached(writes, g)} |->
                                ValueWritten(writes, f)]
           /\ threw' = (threw \/ Throws(writes))
           /\ fxCall' = IF Reached(writes, "delayFeedback")
                          THEN [path |-> "schedule",
                                feedback |-> Coalesce(automation, "delayFeedback",
                                                      trigGlobals.effects.delayFeedback)]
                          ELSE fxCall
    /\ UNCHANGED <<master, trigKind, trigGlobals, voice, waveVars, calmVars, extraVars>>

\* DEFAULT_PARAMS and DEFAULT_EFFECT_PARAMS, and the states pushed: the
\* defaults with at most one field replaced.
BaseFx ==
    [params |-> [cutoff |-> Num(50), resonance |-> Num(60), envMod |-> Num(40),
                 decay |-> Num(40), accent |-> Num(50), tuning |-> Num(0),
                 volume |-> Num(70)],
     effects |-> [distortion |-> Num(0), delayTime |-> Num(25),
                  delayFeedback |-> Num(30), delayMix |-> Num(0)]]
FxPushes ==
    {BaseFx}
      \cup {[BaseFx EXCEPT !.params[k] = v] : k \in DOMAIN BaseFx.params, v \in PercentValues}
      \cup {[BaseFx EXCEPT !.effects[k] = v] : k \in DOMAIN BaseFx.effects, v \in PercentValues}

\* automation objects with at most one key
FxAutomations == {NoVoice} \cup {k :> v : k \in BassKeys, v \in PercentValues}

\* The calls are made until one of them ends in an exception.
PushFx == ~threw /\ \E s \in FxPushes : updateStateFx(s)
CallSetMasterVolume == ~threw /\ \E v \in PercentValues : setMasterVolume(v)
TriggerFx == ~threw /\ \E a \in FxAutomations : playVoiceFx(a)

NextFx ==
    \/ PushFx
    \/ CallSetMasterVolume
    \/ TriggerFx

\* An initialised engine, nothing pushed yet.
SpecFx == InitWave /\ [][NextFx]_vars

\* ------------------------------------------------------------------ playback
\* DEFAULT_STEPS: active on every fourth step.
DefaultSteps == [k \in 1..StepsPerPattern |-> (k - 1) % 4 = 0]

\* DEFAULT_DRUM_PATTERN
DefaultDrumPattern ==
    [BD |-> [k \in 1..StepsPerPattern |-> (k - 1) % 4 = 0],
     SD |-> [k \in 1..StepsPerPattern |-> (k - 1) % 8 = 4],
     CH |-> [k \in 1..StepsPerPattern |-> (k - 1) % 2 = 0],
     OH |-> [k \in 1..StepsPerPattern |-> (k - 1) % 8 = 2],
     CP |-> [k \in 1..StepsPerPattern |-> FALSE]]

\* Patterns after edits in the step grids: steps toggled on and off.
EditedSteps == [k \in 1..StepsPerPattern |-> (k - 1) \in {0, 3, 4, 5, 14}]
EditedDrumPattern ==
    [BD |-> [k \in 1..StepsPerPattern |-> (k - 1) \in {0, 1, 10}],
     SD |-> [k \in 1..StepsPerPattern |-> FALSE],
     CH |-> [k \in 1..StepsPerPattern |-> (k - 1) % 4 = 2],
     OH |-> [k \in 1..StepsPerPattern |-> (k - 1) \in {1, 15}],
     CP |-> [k \in 1..StepsPerPattern |-> (k - 1) % 8 = 4]]

\* The two melodic tracks and the two drum machines of the application.
SynthChoices == {<<DefaultSteps, DefaultSteps>>, <<DefaultSteps, EditedSteps>>}
DrumChoices == {<<DefaultDrumPattern, DefaultDrumPattern>>,
                <<EditedDrumPattern, DefaultDrumPattern>>}

\* The setTimeout callback of scheduleStep runs: a pending callback whose
\* delay has passed, the earliest due first and of equally due ones the one
\* set first.  It hands the step to the listener if the engine is playing
\* and a listener is registered, and does nothing otherwise.
notifyFires(i) ==
    /\ pc = "idle"
    /\ notifyTimers[i].due <= now
    /\ \A j \in 1..Len(notifyTimers) :
          \/ notifyTimers[j].due > notifyTimers[i].due
          \/ notifyTimers[j].due = notifyTimers[i].due /\ j >= i
    /\ notifyTimers' = [j \in 1..(Len(notifyTimers) - 1) |->
                          IF j < i THEN notifyTimers[j] ELSE notifyTimers[j + 1]]
    /\ notified' = IF isPlaying /\ onStepChange
                     THEN Append(notified,
                            [step |-> notifyTimers[i].step, time |-> notifyTimers[i].time,
                             seq |-> notifyTimers[i].seq,
                             session |-> notifyTimers[i].session, at |-> now])
                     ELSE notified
    /\ lastCall' = NoCall
    /\ UNCHANGED <<pushVars, triggers, session, backend, graph, ctx, now, isPlaying,
                   currentStepIndex, nextNoteTime, timerID, timers, tempo, pc,
                   scheduled, errors, threw, nUpdates, triggerVars, soundVars, extraVars>>

NotifyFires == \E i \in 1..Len(notifyTimers) : notifyFires(i)

\* The instants at which the transport button is pressed, and those at which
\* the main thread stalls.
PressTimes == {0, 300, 450}
StallTimes == {600}

\* start() while fewer than MaxSessions sessions have notifications.
PlayStart == now \in PressTimes /\ FreshSession < MaxSessions /\ CallStart
PlayStop == now \in PressTimes /\ CallStop

\* Time passes once the callbacks that are due have run.
TickPlay ==
    /\ \A i \in 1..Len(notifyTimers) : notifyTimers[i].due > now
    /\ \A t \in timers : t.remaining > 0
    /\ \E d \in ClockSteps : AdvanceClockTo(d, MaxPlayTime)

\* The main thread is busy for StallLength ms: callbacks that fall due
\* meanwhile run late.
Stall == now \in StallTimes /\ AdvanceClockTo(StallLength, MaxPlayTime)

\* The initialised engine after updateState pushed tempo 120, two melodic
\* tracks, two drum machines and a listener or none.
InitPlay ==
    /\ backend = TRUE
    /\ ctx = "running"
    /\ now = 0
    /\ isPlaying = FALSE
    /\ currentStepIndex = 0
    /\ nextNoteTime = 0
    /\ timerID = 0
    /\ timers = {}
    /\ tempo = Num(DefaultTempo)
    /\ pc = "idle"
    /\ scheduled = <<>>
    /\ errors = 0
    /\ threw = FALSE
    /\ nUpdates = 1
    /\ lastCall = NoCall
    /\ graph = setupRouting(1)
    /\ synths \in SynthChoices
    /\ drums \in DrumChoices
    /\ onStepChange \in BOOLEAN
    /\ triggers = <<>>
    /\ notifyTimers = <<>>
    /\ session = 0
    /\ notified = <<>>
    /\ trigKind = "bass"
    /\ trigStep = NoVoice
    /\ trigGlobals = NoGlobals
    /\ voice = NoVoice
    /\ SoundInit
    /\ ExtraInit

NextPlay ==
    \/ PlayStart
    \/ PlayStop
    \/ schedulerLoop
    \/ schedulerRearm
    \/ TimerFires
    \/ NotifyFires
    \/ TickPlay
    \/ Stall

SpecPlay == InitPlay /\ [][NextPlay]_vars

\* ------------------------------------------------- wave cache and rebuild
\* The other variables, which the wave cache and its timers leave alone.
coreVars == <<schedVars, triggerVars, soundVars>>

\* createPeriodicWaveFromHarmonics that never finds the array in the cache.
Cached_never(v) == FALSE

\* this.waveCache.has(harmonics)
Cached(v) == v \in DOMAIN waveCache

\* createPeriodicWaveFromHarmonics(harmonics) for an array object: null
\* without a context and for an empty array, the cached wave if the object
\* is a key of the WeakMap, else a new PeriodicWave, or null if
\* createPeriodicWave throws.  A PeriodicWave object is known by the array
\* it was made from and by how many were made from that array before it.
buildWave(c, v) ==
    LET w == createPeriodicWaveFromHarmonics(heap[v])
    IN  IF c = "null" \/ Len(heap[v]) < 1 THEN NoWave
        ELSE IF Cached(v) THEN waveCache[v]
        ELSE IF w.ok THEN [ok |-> TRUE, imag |-> w.imag, of |-> v, nth |-> builds[v] + 1]
        ELSE NoWave

\* The call made a new PeriodicWave.
Builds(c, v) == buildWave(c, v).ok /\ ~Cached(v)

\* this.waveCache.set(harmonics, wave)
waveCacheAfter(c, v) ==
    IF Builds(c, v)
      THEN [u \in DOMAIN waveCache \cup {v} |-> IF u = v THEN buildWave(c, v) ELSE waveCache[u]]
      ELSE waveCache
buildsAfter(c, v) == IF Builds(c, v) THEN [builds EXCEPT ![v] = @ + 1] ELSE builds

\* createPeriodicWaveFromHarmonics that replaces the NaNs in the array it
\* was given.
heapAfterBuild_sanitized(c, v) ==
    IF c = "null" THEN heap
    ELSE [heap EXCEPT ![v] = [i \in 1..Len(@) |-> IF @[i] = NaNValue THEN Num(0) ELSE @[i]]]

\* The arrays after createPeriodicWaveFromHarmonics(harmonics): it reads
\* harmonics[i] and writes imag[i + 1], an array of its own.
heapAfterBuild(c, v) == heap

\* updateCustomWave that sets a timer on every call.
updateCustomWaveOf_noFlag(s, c, index, harmonics) ==
    IF c = "null" THEN s
    ELSE [st |-> [s.st EXCEPT !.pendingHarmonics[index] = harmonics,
                              !.customWaveUpdatePending[index] = TRUE,
                              !.lastCustomWaves[index] = harmonics],
          timers |-> Append(s.timers, [index |-> index, remaining |-> RebuildDelay]),
          edit |-> [s.edit EXCEPT ![index] = [vec |-> harmonics, age |-> 0]]]

\* updateCustomWave that ignores the vector while a rebuild is pending.
updateCustomWaveOf_dropsPending(s, c, index, harmonics) ==
    IF c = "null" THEN s
    ELSE IF s.st.customWaveUpdatePending[index]
      THEN [s EXCEPT !.st.lastCustomWaves[index] = harmonics,
                     !.edit[index] = [vec |-> harmonics, age |-> 0]]
      ELSE [st |-> [s.st EXCEPT !.pendingHarmonics[index] = harmonics,
                                !.customWaveUpdatePending[index] = TRUE,
                                !.lastCustomWaves[index] = harmonics],
            timers |-> Append(s.timers, [index |-> index, remaining |-> RebuildDelay]),
            edit |-> [s.edit EXCEPT ![index] = [vec |-> harmonics, age |-> 0]]]

\* updateCustomWave(index, harmonics) on s = [st, timers, edit], the arrays,
\* the pending timers and the last edits: the vector is kept as the pending
\* one, a timer is set unless the track has one, the vector is the last seen.
updateCustomWaveOf(s, c, index, harmonics) ==
    IF c = "null" THEN s
    ELSE [st |-> [s.st EXCEPT !.pendingHarmonics[index] = harmonics,
                              !.customWaveUpdatePending[index] = TRUE,
                              !.lastCustomWaves[index] = harmonics],
          timers |-> IF s.st.customWaveUpdatePending[index]
                       THEN s.timers
                       ELSE Append(s.timers, [index |-> index, remaining |-> RebuildDelay]),
          edit |-> [s.edit EXCEPT ![index] = [vec |-> harmonics, age |-> 0]]]

\* updateState, per melodic track: a global vector that is not the object
\* last seen is handed to updateCustomWave when the shape is 'custom'.
updateStateTrack(s, c, index, params) ==
    IF params.waveShape = "custom" /\ params.customWave # s.st.lastCustomWaves[index]
      THEN updateCustomWaveOf(s, c, index, params.customWave)
      ELSE s

\* restoreState, per melodic track
restoreStateTrack(s, c, index, params) ==
    IF params.waveShape = "custom" /\ params.customWave # NoVec
      THEN updateCustomWaveOf(s, c, index, params.customWave)
      ELSE s

\* synths.forEach((synth, index) => ...), for no track or two
ForEachSynth(F(_, _, _, _), s, c, P) ==
    IF P = <<>> THEN s ELSE F(F(s, c, 1, P[1]), c, 2, P[2])

RebuildNow == [st |-> rebuildState, timers |-> rebuildTimers, edit |-> lastEdit]
RebuildBecomes(s) ==
    /\ rebuildState' = s.st
    /\ rebuildTimers' = s.timers
    /\ lastEdit' = s.edit

\* updateState(synths, ...): the tracks are kept; with a context each
\* track's global vector is looked at.
updateStateRebuild(P) ==
    /\ synthParams' = P
    /\ RebuildBecomes(IF ctx = "null" THEN RebuildNow
                      ELSE ForEachSynth(updateStateTrack, RebuildNow, ctx, P))
    /\ UNCHANGED <<heap, waveCache, builds, lastCommit, stepWave, coreVars, busVars, fnVars>>

\* init(): restoreState runs when the context was made by this call.
initRebuild ==
    /\ init
    /\ RebuildBecomes(IF ctx = "null" /\ CtxAfterInit # "null"
                        THEN ForEachSynth(restoreStateTrack, RebuildNow,
                                          CtxAfterInit, synthParams)
                        ELSE RebuildNow)
    /\ UNCHANGED <<backend, now, nUpdates, lastCall, triggerVars, soundVars,
                   heap, synthParams, waveCache, builds, lastCommit, stepWave,
                   busVars, fnVars>>

\* The timer of updateCustomWave fires: applyCustomWave(index), which
\* returns at once without a context or a pending vector, then the flag is
\* cleared.
rebuildFires(k) ==
    LET index == rebuildTimers[k].index
        harmonics == rebuildState.pendingHarmonics[index]
        applies == ctx # "null" /\ harmonics # NoVec
    IN  /\ rebuildTimers[k].remaining = 0
        /\ rebuildTimers' = [j \in 1..(Len(rebuildTimers) - 1) |->
                               IF j < k THEN rebuildTimers[j] ELSE rebuildTimers[j + 1]]
        /\ rebuildState' =
              [rebuildState EXCEPT
                 !.periodicWaveCaches[index] = IF applies THEN buildWave(ctx, harmonics) ELSE @,
                 !.customWaveUpdatePending[index] = FALSE]
        /\ waveCache' = IF applies THEN waveCacheAfter(ctx, harmonics) ELSE waveCache
        /\ builds' = IF applies THEN buildsAfter(ctx, harmonics) ELSE builds
        /\ lastCommit' = IF applies
                           THEN [lastCommit EXCEPT ![index] =
                                   [vec |-> harmonics, latest |-> lastEdit[index].vec,
                                    quiet |-> lastEdit[index].age]]
                           ELSE lastCommit
        /\ heap' = IF applies THEN heapAfterBuild(ctx, harmonics) ELSE heap
        /\ UNCHANGED <<synthParams, lastEdit, stepWave, coreVars, busVars, fnVars>>

\* playVoice for a step with its own vector: the wave comes from
\* createPeriodicWaveFromHarmonics(step.automation.customWave).
playVoiceRebuild(v) ==
    /\ ctx # "null"
    /\ synthParams # <<>>
    /\ stepWave' = [vec |-> v, wave |-> buildWave(ctx, v)]
    /\ waveCache' = waveCacheAfter(ctx, v)
    /\ builds' = buildsAfter(ctx, v)
    /\ heap' = heapAfterBuild(ctx, v)
    /\ UNCHANGED <<synthParams, rebuildState, rebuildTimers, lastEdit,
                   lastCommit, coreVars, busVars, fnVars>>

\* d ms pass, once the timers that are due have fired.
rebuildClock(d) ==
    /\ \A j \in 1..Len(rebuildTimers) : rebuildTimers[j].remaining > 0
    /\ rebuildTimers' = [j \in 1..Len(rebuildTimers) |->
                           [rebuildTimers[j] EXCEPT !.remaining = Max(0, @ - d)]]
    /\ lastEdit' = [i \in Tracks |->
                      [lastEdit[i] EXCEPT !.age = IF @ + d > RebuildDelay
                                                    THEN RebuildDelay ELSE @ + d]]
    /\ lastCommit' = [i \in Tracks |-> NoCommit]
    /\ stepWave' = NoStepWave
    /\ UNCHANGED <<heap, synthParams, rebuildState, waveCache, builds, coreVars, busVars, fnVars>>

\* The params the editor pushes: DEFAULT_PARAMS for both tracks at first,
\* which share one array, then one track's params replaced at a time.
DefaultWaveParams == [waveShape |-> "sawtooth", customWave |-> 1, cutoff |-> 50]
WaveParamChoices(i) ==
    {[waveShape |-> w, customWave |-> v, cutoff |-> q] :
        w \in {"sawtooth", "custom"}, v \in VecIds,
        q \in IF i = 1 THEN {50, 60} ELSE {50}}
RebuildPushes ==
    IF synthParams = <<>>
      THEN {<<DefaultWaveParams, DefaultWaveParams>>}
      ELSE UNION {{[synthParams EXCEPT ![i] = q] : q \in WaveParamChoices(i)} :
                    i \in Tracks}

PushRebuild == \E P \in RebuildPushes : updateStateRebuild(P)
InitRebuilds == initRebuild
RebuildFires == \E k \in 1..Len(rebuildTimers) : rebuildFires(k)
TriggerRebuild == \E v \in VecIds : playVoiceRebuild(v)
TickRebuild == \E d \in ClockSteps : rebuildClock(d)

NextRebuild ==
    \/ PushRebuild
    \/ InitRebuilds
    \/ RebuildFires
    \/ TriggerRebuild
    \/ TickRebuild

\* The engine after construction, with a backend.
InitRebuild == Init /\ backend = TRUE

SpecRebuild == InitRebuild /\ [][NextRebuild]_vars

\* The editor's pushes and the rebuild timers alone, where time passes and
\* a timer that is due fires: a setTimeout callback runs once its delay is
\* over, whatever is pushed meanwhile.
NextEdit ==
    \/ PushRebuild
    \/ InitRebuilds
    \/ RebuildFires
    \/ TickRebuild

SpecEdit ==
    /\ InitRebuild
    /\ [][NextEdit]_vars
    /\ WF_vars(RebuildFires)
    /\ WF_vars(TickRebuild)

\* ------------------------------------------------------ gains and drive
\* Gains are in 1/100, drive amounts in 1/100 of a percent, times in ms.
\* The part of the engine modelled here is the master gain, the output of
\* melodic track 0, and drum machine 0 with the chain of its bass drum.

DistortionThreshold == 10
MaxBusTime == 100
StepOffsets == {0, 200}
DriveValues == {Num(0), Num(5), Num(5000), NaNValue}

AbsDiff(a, b) == IF a > b THEN a - b ELSE b - a

\* Math.abs(this.lastDistortionValue - amount) > 0.1, false for NaN
DriveChanged(c, amount) ==
    /\ ~isNaN(amount)
    /\ AbsDiff(c.lastDistortionValue.v, amount.v) > DistortionThreshold

\* The body shared by update and setDistortion once the amount is known:
\* beyond the threshold the curve becomes null for amount <= 0, else the
\* curve of k = amount * 5, and the amount is remembered.
applyDrive(c, amount) ==
    IF DriveChanged(c, amount)
      THEN [lastDistortionValue |-> amount,
            curve |-> IF amount.v <= 0 THEN NullCurve ELSE Times(amount, 5),
            requested |-> amount]
      ELSE [c EXCEPT !.requested = amount]

\* FXChain.setDistortion(amount)
setDistortion(c, amount) == applyDrive(c, amount)

\* FXChain.update, the distortion: NaN counts as 0.
updateDrive(c, params) ==
    applyDrive(c, IF isNaN(params.distortion) THEN Num(0) ELSE params.distortion)

\* One parameter write: the parameter, the method, the value, the value the
\* parameter had been given before, the time the write takes effect, the
\* path that made it and, for a step, the step's trigger time.
ParamWrite(target, method, value, from, at, path, time) ==
    [target |-> target, method |-> method, value |-> value, from |-> from,
     at |-> at, path |-> path, time |-> time]

\* The assignment to distortionNode.curve, made when the call is made.
CurveWrites(c, c2, path, time) ==
    IF c2.lastDistortionValue # c.lastDistortionValue \/ c2.curve # c.curve
      THEN <<ParamWrite("curve", "assign", c2.curve, c.curve, now, path, time)>>
      ELSE <<>>

\* The delay writes of FXChain.update, all setTargetAtTime(.., now, 0.1).
ChainUpdateWrites(params, path) ==
    LET w == updateWrites(params)
    IN  [i \in 1..Len(w) |->
           ParamWrite(w[i].param, "setTargetAtTime", w[i].value, Undefined,
                      now, path, now)]

GainTargets == {"masterGain", "synthOutput", "drumMasterGain", "drumOutput"}

\* isNaN(volume) ? fallback : volume / 100
VolumeOr(volume, fallback) == IF isNaN(volume) THEN fallback ELSE volume.v

\* The gains after a sequence of writes: each gain has the value of the
\* last write to it.
GainsAfter(g, writes) ==
    [t \in GainTargets |->
        IF \E i \in 1..Len(writes) : writes[i].target = t
          THEN writes[CHOOSE i \in 1..Len(writes) :
                        /\ writes[i].target = t
                        /\ \A j \in (i + 1)..Len(writes) : writes[j].target # t].value.v
          ELSE g[t]]

\* The delay parameters after a sequence of writes.
DelayAfter(c, writes) ==
    [t \in DOMAIN c |->
        IF \E i \in 1..Len(writes) : writes[i].target = t
          THEN writes[CHOOSE i \in 1..Len(writes) :
                        /\ writes[i].target = t
                        /\ \A j \in (i + 1)..Len(writes) : writes[j].target # t].value
          ELSE c[t]]

\* The loops of updateState over synths and drums, with a context: the
\* output gain of the track; the master gain of the drum machine, then
\* chain.update and the chain's output gain.  restoreState has the same
\* loops with another method.
PushWrites(S, g, c, method, path) ==
    (IF S.synths = <<>> THEN <<>>
     ELSE <<ParamWrite("synthOutput", method,
                       Num(VolumeOr(S.synths[1].volume, 70)), Num(g.synthOutput),
                       now, path, now)>>)
    \o
    (IF S.drums = <<>> THEN <<>>
     ELSE <<ParamWrite("drumMasterGain", method,
                       Num(VolumeOr(S.drums[1].volume, 80)), Num(g.drumMasterGain),
                       now, path, now)>>
          \o CurveWrites(c, updateDrive(c, S.drums[1].effects), path, now)
          \o ChainUpdateWrites(S.drums[1].effects, path)
          \o <<ParamWrite("drumOutput", method,
                          Num(VolumeOr(S.drums[1].volBD, 80)), Num(g.drumOutput),
                          now, path, now)>>)

ChainAfterPush(S, c) == IF S.drums = <<>> THEN c ELSE updateDrive(c, S.drums[1].effects)

\* updateState(synths, drums, onStepChange): the state is stored; with a
\* context every gain is written with setTargetAtTime(.., currentTime, 0.1).
updateStateBus(S) ==
    LET stored == [busState EXCEPT !.synths = S.synths, !.drums = S.drums]
        writes == IF ctx = "null" THEN <<>>
                  ELSE PushWrites(stored, busGains, drumChain,
                                  "setTargetAtTime", "updateState")
    IN  /\ busState' = stored
        /\ paramWrites' = writes
        /\ busGains' = GainsAfter(busGains, writes)
        /\ drumChain' = IF ctx = "null" THEN drumChain
                        ELSE ChainAfterPush(stored, drumChain)
        /\ chainDelay' = DelayAfter(chainDelay, writes)
        /\ lastStep' = NoStep
        /\ UNCHANGED <<coreVars, cacheVars, fnVars>>

\* setupRouting: the new nodes get their first values.
setupRoutingGains ==
    [masterGain |-> busState.currentMasterVolume, synthOutput |-> 70,
     drumMasterGain |-> 80, drumOutput |-> 70]
setupRoutingWrites ==
    <<ParamWrite("masterGain", "value", Num(setupRoutingGains.masterGain),
                 Undefined, now, "setupRouting", now),
      ParamWrite("synthOutput", "value", Num(70), Undefined, now, "setupRouting", now),
      ParamWrite("drumMasterGain", "value", Num(80), Undefined, now, "setupRouting", now),
      ParamWrite("drumOutput", "value", Num(70), Undefined, now, "setupRouting", now)>>

\* restoreState: the master gain, then the loops, all with
\* setValueAtTime(.., currentTime).
restoreStateWrites ==
    <<ParamWrite("masterGain", "setValueAtTime", Num(busState.currentMasterVolume),
                 Num(setupRoutingGains.masterGain), now, "restoreState", now)>>
    \o PushWrites(busState, setupRoutingGains, NewFXChain,
                  "setValueAtTime", "restoreState")

\* init(): when this call makes the context, setupRouting builds the nodes
\* and restoreState applies the state stored so far.
initBus ==
    LET made == ctx = "null" /\ CtxAfterInit # "null"
        writes == IF made THEN setupRoutingWrites \o restoreStateWrites ELSE <<>>
    IN  /\ init
        /\ paramWrites' = writes
        /\ busGains' = IF made THEN GainsAfter(setupRoutingGains, writes) ELSE busGains
        /\ drumChain' = IF made THEN ChainAfterPush(busState, NewFXChain) ELSE drumChain
        /\ chainDelay' = IF made THEN DelayAfter(NewDelay, writes) ELSE chainDelay
        /\ UNCHANGED <<backend, now, nUpdates, lastCall, triggerVars, soundVars,
                       cacheVars, busState, lastStep, fnVars>>

\* setMasterVolume(volume): currentMasterVolume = Math.max(0, volume / 100);
\* with a context the master gain heads there.
setMasterVolumeBus(volume) ==
    LET v == IF volume > 0 THEN volume ELSE 0
        writes == IF ctx = "null" THEN <<>>
                  ELSE <<ParamWrite("masterGain", "setTargetAtTime", Num(v),
                                    Num(busGains.masterGain), now,
                                    "setMasterVolume", now)>>
    IN  /\ busState' = [busState EXCEPT !.currentMasterVolume = v]
        /\ paramWrites' = writes
        /\ busGains' = GainsAfter(busGains, writes)
        /\ UNCHANGED <<drumChain, chainDelay, lastStep, coreVars, cacheVars, fnVars>>

\* playBD(time, index, kit, step) up to the track level: applyDrumAutomation
\* schedules the delay at `time` and calls setDistortion, then the chain's
\* output gain heads to the step's volume from `time` on.
playBD(time, automation) ==
    LET globalEffects == busState.drums[1].effects
        delayMix == scheduleDelayMix(Coalesce(automation, "delayMix", globalEffects.delayMix))
        delayTime == scheduleDelayTime(Coalesce(automation, "delayTime", globalEffects.delayTime))
        delayFeedback == scheduleDelayFeedback(
                           Coalesce(automation, "delayFeedback", globalEffects.delayFeedback))
        dist == Coalesce(automation, "distortion", globalEffects.distortion)
        volume == Coalesce(automation, "volume", busState.drums[1].volBD)
        writes ==
          <<ParamWrite("delayDry", "setTargetAtTime", OneMinus(delayMix), Undefined,
                       time, "step", time),
            ParamWrite("delayWet", "setTargetAtTime", delayMix, Undefined,
                       time, "step", time),
            ParamWrite("delayTime", "setTargetAtTime", delayTime, Undefined,
                       time, "step", time),
            ParamWrite("delayFeedback", "setTargetAtTime", delayFeedback, Undefined,
                       time, "step", time)>>
          \o CurveWrites(drumChain, setDistortion(drumChain, dist), "step", time)
          \o <<ParamWrite("drumOutput", "setTargetAtTime", volume,
                          Num(busGains.drumOutput), time, "step", time)>>
    IN  /\ ctx # "null"
        /\ busState.drums # <<>>
        /\ time > lastStep.time
        /\ paramWrites' = writes
        /\ drumChain' = setDistortion(drumChain, dist)
        /\ busGains' = GainsAfter(busGains, writes)
        /\ chainDelay' = DelayAfter(chainDelay, writes)
        /\ lastStep' = [time |-> time, active |-> TRUE, automation |-> automation]
        /\ UNCHANGED <<busState, coreVars, cacheVars, fnVars>>

\* scheduleStep for a step whose bass drum is not active: playBD is not
\* called and nothing is written to the chain.
skipBD(time) ==
    /\ ctx # "null"
    /\ busState.drums # <<>>
    /\ time > lastStep.time
    /\ paramWrites' = <<>>
    /\ lastStep' = [time |-> time, active |-> FALSE, automation |-> NoVoice]
    /\ UNCHANGED <<busState, busGains, drumChain, chainDelay, coreVars, cacheVars, fnVars>>

\* d ms pass.
busClock(d) ==
    /\ now + d <= MaxBusTime
    /\ now' = now + d
    /\ paramWrites' = <<>>
    /\ UNCHANGED <<backend, engineVars, scheduled, errors, threw, nUpdates, lastCall,
                   graph, playVars, triggerVars, soundVars, cacheVars,
                   busState, busGains, drumChain, chainDelay, lastStep, fnVars>>

\* The states pushed: the defaults of the editor at first, then one field
\* replaced at a time.
DefaultBusEffects == [distortion |-> Num(0), delayTime |-> Num(25),
                      delayFeedback |-> Num(30), delayMix |-> Num(0)]
DefaultBus ==
    [synths |-> <<[volume |-> Num(70)]>>,
     drums |-> <<[volume |-> Num(80), volBD |-> Num(80), effects |-> DefaultBusEffects]>>]
BusPushes ==
    IF busState.synths = <<>>
      THEN {DefaultBus}
      ELSE LET S == [synths |-> busState.synths, drums |-> busState.drums]
           IN  {[S EXCEPT !.synths[1].volume = v] : v \in {Num(70), Num(30), NaNValue}}
                 \cup {[S EXCEPT !.drums[1].volume = v] : v \in {Num(80), Num(40)}}
                 \cup {[S EXCEPT !.drums[1].volBD = v] : v \in {Num(80), Num(50)}}
                 \cup {[S EXCEPT !.drums[1].effects.distortion = v] : v \in DriveValues}
BusAutomations ==
    {NoVoice} \cup {"distortion" :> v : v \in DriveValues}
              \cup {"delayMix" :> Num(100), "volume" :> Num(30)}

PushBus == \E S \in BusPushes : updateStateBus(S)
InitBuses == initBus
CallSetMasterVolumeBus == \E v \in {80, 50} : setMasterVolumeBus(v)
TriggerBD == \E d \in StepOffsets, a \in BusAutomations : playBD(now + d, a)
SkipBD == \E d \in StepOffsets : skipBD(now + d)
TickBus == \E d \in ClockSteps : busClock(d)

NextBus ==
    \/ PushBus
    \/ InitBuses
    \/ CallSetMasterVolumeBus
    \/ TriggerBD
    \/ SkipBD
    \/ TickBus

SpecBus == InitRebuild /\ [][NextBus]_vars

\* ------------------------------------------------- the editor's helpers
\* Amplitudes are fractions n/d in lowest terms.
WAVE_RESOLUTION == 64
Frac(n, d) == [n |-> n, d |-> d]

\* 1 / (index + 1)
sawHarmonic(index) == Frac(1, index + 1)

\* The square preset with the parity test the other way round.
squareHarmonic_odd(index) == IF index % 2 = 1 THEN Frac(1, index + 1) ELSE Frac(0, 1)

\* (index % 2 === 0) ? 1 / (index + 1) : 0
squareHarmonic(index) == IF index % 2 = 0 THEN Frac(1, index + 1) ELSE Frac(0, 1)

\* getEffectiveHarmonic(shape, customWave, index): no shape counts as
\* 'sawtooth'; 'custom' reads the vector when there is one with entries
\* (0 past its end) and is a sawtooth otherwise.
getEffectiveHarmonic(shape, customWave, index) ==
    LET s == IF shape = "undefined" THEN "sawtooth" ELSE shape
    IN  IF s = "custom"
          THEN IF customWave.set /\ Len(customWave.h) > 0
                 THEN IF index + 1 <= Len(customWave.h) THEN customWave.h[index + 1]
                                                        ELSE Frac(0, 1)
                 ELSE sawHarmonic(index)
          ELSE IF s = "sawtooth" THEN sawHarmonic(index)
          ELSE IF s = "square" THEN squareHarmonic(index)
          ELSE Frac(0, 1)

\* generateSaw and generateSquare: harmonics.map over the indices
generateSaw(length) == [k \in 1..length |-> sawHarmonic(k - 1)]
generateSquare(length) == [k \in 1..length |-> squareHarmonic(k - 1)]

HarmonicShapes == {"undefined", "sawtooth", "square", "custom"}
EditorVectors == {NoVector, Vector(<<>>), Vector(<<Frac(1, 2), Frac(1, 4)>>)}
HarmonicArgs ==
    {[fn |-> "getEffectiveHarmonic", shape |-> sh, customWave |-> w, index |-> i] :
        sh \in HarmonicShapes, w \in EditorVectors, i \in 0..(WAVE_RESOLUTION - 1)}
PresetArgs ==
    {[fn |-> g, length |-> WAVE_RESOLUTION] : g \in {"generateSaw", "generateSquare"}}

\* The helper is called with the arguments drawn.
CallGetEffectiveHarmonic ==
    /\ fnArgs.fn = "getEffectiveHarmonic"
    /\ fnResult = NoResult
    /\ fnResult' = [fn |-> fnArgs.fn,
                    value |-> getEffectiveHarmonic(fnArgs.shape, fnArgs.customWave,
                                                   fnArgs.index)]
    /\ UNCHANGED <<fnArgs, coreVars, cacheVars, busVars>>

\* A preset button of the harmonic editor is pressed.
CallGenerate ==
    /\ fnArgs.fn \in {"generateSaw", "generateSquare"}
    /\ fnResult = NoResult
    /\ fnResult' = [fn |-> fnArgs.fn,
                    value |-> IF fnArgs.fn = "generateSaw"
                                THEN generateSaw(fnArgs.length)
                                ELSE generateSquare(fnArgs.length)]
    /\ UNCHANGED <<fnArgs, coreVars, cacheVars, busVars>>

InitHarmonic ==
    /\ EngineIdle
    /\ fnArgs \in HarmonicArgs \cup PresetArgs
    /\ fnResult = NoResult

NextHarmonic ==
    \/ CallGetEffectiveHarmonic
    \/ CallGenerate

SpecHarmonic == InitHarmonic /\ [][NextHarmonic]_vars

\* NOTES and NOTES.indexOf(note)
NOTES == <<"C", "C#", "D", "D#", "E", "F", "F#", "G", "G#", "A", "A#", "B">>
indexOf(note) == CHOOSE k \in 0..(Len(NOTES) - 1) : NOTES[k + 1] = note

\* BASE_FREQ_C1 = 32.703, in 1/1000 Hz
BASE_FREQ_C1 == 32703

RECURSIVE Pow2(_)
Pow2(n) == IF n = 0 THEN 1 ELSE 2 * Pow2(n - 1)

\* An octave multiplier that grows by one per octave.
octaveMultiplier_linear(octave) == octave

\* Math.pow(2, octave - 1)
octaveMultiplier(octave) == Pow2(octave - 1)

\* Math.pow(2, semitones / 12) in 1/1000, rounded to the nearest
noteMultiplier(semitones) ==
    <<1000, 1059, 1122, 1189, 1260, 1335, 1414, 1498, 1587, 1682, 1782, 1888>>[semitones + 1]

\* getFrequency(note, octave), in 1/1000000 Hz
getFrequency(note, octave) ==
    BASE_FREQ_C1 * octaveMultiplier(octave) * noteMultiplier(indexOf(note))

Octaves == 1..3
NoteNames == {NOTES[k] : k \in 1..Len(NOTES)}
FrequencyArgs ==
    {[fn |-> "getFrequency", note |-> n, octave |-> o, note2 |-> n2, octave2 |-> o2] :
        n \in NoteNames, o \in Octaves, n2 \in NoteNames, o2 \in Octaves}

\* getFrequency is called for each of the two pitches drawn.
CallGetFrequency ==
    /\ fnArgs.fn = "getFrequency"
    /\ fnResult = NoResult
    /\ fnResult' = [fn |-> fnArgs.fn,
                    value |-> getFrequency(fnArgs.note, fnArgs.octave),
                    value2 |-> getFrequency(fnArgs.note2, fnArgs.octave2)]
    /\ UNCHANGED <<fnArgs, coreVars, cacheVars, busVars>>

InitFrequency ==
    /\ EngineIdle
    /\ fnArgs \in FrequencyArgs
    /\ fnResult = NoResult

NextFrequency == CallGetFrequency

SpecFrequency == InitFrequency /\ [][NextFrequency]_vars

\* ------------------------------------------------------- accent and decay
\* currentDecay in 1/10 of the decay setting: with the accent flag
\* Math.max(10, currentDecay * 0.7), else the setting itself.
currentDecay(decayVal, accent) ==
    IF accent THEN Max(100, decayVal * 7) ELSE decayVal * 10

\* decayTime = 0.1 + (currentDecay / 100) * 0.5, in 1/10 ms
decayTime(decay10) == 1000 + decay10 * 5

DecaySettings == 0..100
DecayArgs == {[fn |-> "decayTime", decay |-> d] : d \in DecaySettings}

\* playVoice works out the decay of a step with the setting drawn, once
\* without and once with the accent flag.
CallDecayTime ==
    /\ fnArgs.fn = "decayTime"
    /\ fnResult = NoResult
    /\ fnResult' = [fn |-> fnArgs.fn,
                    plain |-> currentDecay(fnArgs.decay, FALSE),
                    accented |-> currentDecay(fnArgs.decay, TRUE),
                    plainTime |-> decayTime(currentDecay(fnArgs.decay, FALSE)),
                    accentedTime |-> decayTime(currentDecay(fnArgs.decay, TRUE))]
    /\ UNCHANGED <<fnArgs, coreVars, cacheVars, busVars>>

InitDecay ==
    /\ EngineIdle
    /\ fnArgs \in DecayArgs
    /\ fnResult = NoResult

NextDecay == CallDecayTime

SpecDecay == InitDecay /\ [][NextDecay]_vars

\* --------------------------------------------------------- wave builder
\* real = new Float32Array(harmonics.length + 1): all zero, never written
RealOf(h) == [i \in 1..(Len(h) + 1) |-> Num(0)]

BuildValues == {Num(0), Num(1), Num(2), NaNValue, Infinity}
BuildVectors == UNION {[1..n -> BuildValues] : n \in 1..MaxBuildLen}
BuildArgs == {[fn |-> "createPeriodicWaveFromHarmonics", h |-> h] : h \in BuildVectors}

\* createPeriodicWaveFromHarmonics(harmonics) for the vector drawn: the
\* wave it returns, and the real array it handed to createPeriodicWave.
CallBuild ==
    /\ fnArgs.fn = "createPeriodicWaveFromHarmonics"
    /\ fnResult = NoResult
    /\ fnResult' = [fn |-> fnArgs.fn, ctx |-> ctx,
                    wave |-> createPeriodicWaveFromHarmonics(fnArgs.h),
                    real |-> IF createPeriodicWaveFromHarmonics(fnArgs.h).ok
                               THEN RealOf(fnArgs.h) ELSE <<>>]
    /\ UNCHANGED <<fnArgs, coreVars, cacheVars, busVars>>

InitBuilder ==
    /\ EngineIdle
    /\ fnArgs \in BuildArgs
    /\ fnResult = NoResult

NextBuilder ==
    \/ CallInit
    \/ CallBuild

SpecBuilder == InitBuilder /\ [][NextBuilder]_vars

\* -------------------------------------------------------- drum tuning
\* A frequency or playback rate a drum voice sets: base * 2^(cents / 1200).
\* pitchMult = Math.pow(2, tuning / 1200 * k) is the factor 2^(tuning * k / 1200).
Tuned(node, param, base, tuning, k) ==
    [node |-> node, param |-> param, base |-> base, cents |-> tuning * k]
Fixed(node, param, base) == [node |-> node, param |-> param, base |-> base, cents |-> 0]

\* playBD: the oscillator's sweep; the 909 adds a click oscillator whose
\* sweep ends at 10 Hz.
playBDFrequencies(kit, tuning) ==
    IF kit = "808"
      THEN {Tuned("osc", "frequency", 150, tuning, 12),
            Tuned("osc", "frequency", 50, tuning, 12)}
      ELSE {Tuned("osc", "frequency", 200, tuning, 12),
            Tuned("osc", "frequency", 45, tuning, 12),
            Tuned("clickOsc", "frequency", 300, tuning, 12),
            Fixed("clickOsc", "frequency", 10)}

\* playSD: the triangle oscillator; the noise source keeps its rate.
playSDFrequencies(kit, tuning) ==
    IF kit = "808"
      THEN {Tuned("osc", "frequency", 250, tuning, 12)}
      ELSE {Tuned("osc", "frequency", 180, tuning, 12),
            Tuned("osc", "frequency", 120, tuning, 12)}

\* playHat, closed or open: source.playbackRate.value = 1.0 * pitchMult with
\* pitchMult = Math.pow(2, tuning / 1200 * 24), for either buffer.
playHatFrequencies(kit, tuning) == {Tuned("source", "playbackRate", 1, tuning, 24)}

\* playClap: source.playbackRate.value = pitchMult
playClapFrequencies(kit, tuning) == {Tuned("source", "playbackRate", 1, tuning, 12)}

DrumPrograms == {"BD", "SD", "CH", "OH", "CP"}
DrumKits == {"808", "909"}
TuningValues == (-50)..50
TuningArgs ==
    {[fn |-> "playDrum", program |-> g, kit |-> k, tuning |-> t] :
        g \in DrumPrograms, k \in DrumKits, t \in TuningValues}

\* The drum voice drawn is triggered with the tuning drawn.
CallPlayDrum ==
    /\ fnArgs.fn = "playDrum"
    /\ fnResult = NoResult
    /\ fnResult' =
          [fn |-> fnArgs.fn,
           frequencies |->
              CASE fnArgs.program = "BD" -> playBDFrequencies(fnArgs.kit, fnArgs.tuning)
                [] fnArgs.program = "SD" -> playSDFrequencies(fnArgs.kit, fnArgs.tuning)
                [] fnArgs.program \in {"CH", "OH"} ->
                                            playHatFrequencies(fnArgs.kit, fnArgs.tuning)
                [] fnArgs.program = "CP" -> playClapFrequencies(fnArgs.kit, fnArgs.tuning)]
    /\ UNCHANGED <<fnArgs, coreVars, cacheVars, busVars>>

InitTuning ==
    /\ EngineIdle
    /\ fnArgs \in TuningArgs
    /\ fnResult = NoResult

NextTuning == CallPlayDrum

SpecTuning == InitTuning /\ [][NextTuning]_vars

\* ------------------------------------------------------- pattern generator
\* generateAcidPattern, by the lengths of what the language model returns.
\* A JSON value is tagged with its kind: k = "undefined" for a property the
\* response leaves out, "string" for a value that is not an array, "array"
\* for an array whose entries are in v.

SliceEnd == 16

MaxResponseLen == 17

Min(a, b) == IF a <= b THEN a ELSE b

slice(s, from, to) == SubSeq(s, from + 1, Min(to, Len(s)))

DEFAULT_STEPS ==
    [i \in 1..16 |-> [id |-> i - 1, active |-> (i - 1) % 4 = 0, note |-> "C",
                      octave |-> 2, accent |-> FALSE, slide |-> FALSE]]

DefaultLane(m, r) == [i \in 1..16 |-> [id |-> i - 1, active |-> (i - 1) % m = r]]

DEFAULT_DRUM_PATTERN ==
    [BD |-> DefaultLane(4, 0), SD |-> DefaultLane(8, 4), CH |-> DefaultLane(2, 0),
     OH |-> DefaultLane(8, 2), CP |-> DefaultLane(1, 1)]

Defaults == [steps |-> DEFAULT_STEPS, drums |-> DEFAULT_DRUM_PATTERN]

JsonMissing == [k |-> "undefined", v |-> <<>>]

JsonString == [k |-> "string", v |-> <<>>]

JsonArray(s) == [k |-> "array", v |-> s]

\* data.pattern.map(...).slice(0, 16)
mapSteps(arr) ==
    slice([i \in 1..Len(arr) |->
              [id |-> i - 1, active |-> arr[i].active, note |-> arr[i].note,
               octave |-> arr[i].octave, accent |-> arr[i].accent,
               slide |-> arr[i].slide]], 0, SliceEnd)

\* arr.map((active, i) => ({ id: i, active })).slice(0, 16)
mapDrum(arr) ==
    slice([i \in 1..Len(arr) |-> [id |-> i - 1, active |-> arr[i]]], 0, SliceEnd)

DrumLanes == {"BD", "SD", "CH", "OH", "CP"}

\* The body of the try block after the request: the parsed response's
\* pattern replaces the default when it is an array, its drums when present.
\* Mapping a lane that is not an array throws.
generateThrows(a) ==
    \/ a.outcome \in {"throws", "badjson"}
    \/ /\ a.outcome = "text"
       /\ a.drums.present
       /\ \E l \in DrumLanes : a.drums.lanes[l].k # "array"

generateAcidPattern(a) ==
    IF ~a.apiKey THEN Defaults
    ELSE IF generateThrows(a) THEN Defaults
    ELSE IF a.outcome = "empty" THEN Defaults
    ELSE [steps |-> IF a.pattern.k = "array" THEN mapSteps(a.pattern.v)
                                              ELSE DEFAULT_STEPS,
          drums |-> IF a.drums.present
                      THEN [l \in DrumLanes |-> mapDrum(a.drums.lanes[l].v)]
                      ELSE DEFAULT_DRUM_PATTERN]

ResponseLengths == {0, SliceEnd - 1, SliceEnd, MaxResponseLen}

ResponseSteps ==
    {[i \in 1..n |-> [note |-> "A", octave |-> 1, accent |-> TRUE,
                      slide |-> FALSE, active |-> TRUE]] : n \in ResponseLengths}

ResponseLaneValues ==
    {JsonMissing} \cup {JsonArray([i \in 1..n |-> TRUE]) : n \in ResponseLengths}

NoDrums == [present |-> FALSE, lanes |-> [l \in DrumLanes |-> JsonMissing]]

GeneratorArgs ==
    {[fn |-> "generateAcidPattern", apiKey |-> k, outcome |-> o,
      pattern |-> JsonMissing, drums |-> NoDrums] :
         k \in BOOLEAN, o \in {"throws", "badjson", "empty"}}
    \cup
    {[fn |-> "generateAcidPattern", apiKey |-> TRUE, outcome |-> "text",
      pattern |-> p, drums |-> d] :
         p \in {JsonMissing, JsonString} \cup {JsonArray(s) : s \in ResponseSteps},
         d \in {NoDrums} \cup
               {[present |-> TRUE, lanes |-> f] :
                    f \in [DrumLanes -> ResponseLaneValues]}}

CallGenerateAcidPattern ==
    /\ fnArgs.fn = "generateAcidPattern"
    /\ fnResult = NoResult
    /\ fnResult' = [fn |-> fnArgs.fn, value |-> generateAcidPattern(fnArgs)]
    /\ UNCHANGED <<fnArgs, coreVars, cacheVars, busVars>>

InitGenerator ==
    /\ EngineIdle
    /\ fnArgs \in GeneratorArgs
    /\ fnResult = NoResult

NextGenerator == CallGenerateAcidPattern

SpecGenerator == InitGenerator /\ [][NextGenerator]_vars

\* ------------------------------------------------------- short patterns
\* Patterns with fewer than 16 steps, as generateAcidPattern returns them
\* when the response is short: a melodic pattern of one step, a snare lane
\* of two steps, an empty clap lane.
MaxShortTime == 600

ShortSteps == SubSeq(DefaultSteps, 1, 1)

ShortSnarePattern == [DefaultDrumPattern EXCEPT !.SD = SubSeq(DefaultDrumPattern.SD, 1, 2)]

NoClapPattern == [DefaultDrumPattern EXCEPT !.CP = <<>>]

ShortSynthChoices == {<<DefaultSteps, DefaultSteps>>, <<ShortSteps, DefaultSteps>>}

ShortDrumChoices == {<<DefaultDrumPattern, DefaultDrumPattern>>,
                     <<DefaultDrumPattern, ShortSnarePattern>>,
                     <<NoClapPattern, DefaultDrumPattern>>}

\* The initialised engine after updateState pushed the patterns.
InitShort ==
    /\ backend = TRUE
    /\ ctx = "running"
    /\ now = 0
    /\ isPlaying = FALSE
    /\ currentStepIndex = 0
    /\ nextNoteTime = 0
    /\ timerID = 0
    /\ timers = {}
    /\ tempo = Num(DefaultTempo)
    /\ pc = "idle"
    /\ scheduled = <<>>
    /\ errors = 0
    /\ threw = FALSE
    /\ nUpdates = 1
    /\ lastCall = NoCall
    /\ graph = setupRouting(1)
    /\ synths \in ShortSynthChoices
    /\ drums \in ShortDrumChoices
    /\ onStepChange \in BOOLEAN
    /\ triggers = <<>>
    /\ notifyTimers = <<>>
    /\ session = 0
    /\ notified = <<>>
    /\ trigKind = "bass"
    /\ trigStep = NoVoice
    /\ trigGlobals = NoGlobals
    /\ voice = NoVoice
    /\ SoundInit
    /\ ExtraInit

TickShort ==
    /\ \A i \in 1..Len(notifyTimers) : notifyTimers[i].due > now
    /\ \A t \in timers : t.remaining > 0
    /\ \E d \in ClockSteps : AdvanceClockTo(d, MaxShortTime)

NextShort ==
    \/ PlayStart
    \/ PlayStop
    \/ schedulerLoop
    \/ schedulerRearm
    \/ TimerFires
    \/ NotifyFires
    \/ TickShort

SpecShort == InitShort /\ [][NextShort]_vars

\* ------------------------------------------------------------- transport
\* The transport calls and the timer on a machine with an audio backend,
\* nothing pushed: init, start, stop, toggle, the scheduler and the clock.
InitTransport ==
    /\ EngineIdle
    /\ FnInit

NextTransport ==
    \/ CallInit
    \/ CallStart
    \/ CallStop
    \/ CallToggle
    \/ schedulerLoop
    \/ schedulerRearm
    \/ TimerFires
    \/ Tick

SpecTransport == InitTransport /\ [][NextTransport]_vars

\* ------------------------------------------------ state pushed before init
\* The calls that can run before the engine has its context, with the delay
\* time of the bass drum chain among the values pushed, NaN included.  An
\* AudioParam method called with NaN throws a TypeError: the handler ends
\* there, the writes before it made.

\* A write of NaN to an AudioParam (the curve is a property, not a param).
NaNWrites(writes) ==
    {i \in 1..Len(writes) : writes[i].target # "curve" /\ writes[i].value = NaNValue}

\* The writes made before the first one that throws.
Done(writes) ==
    IF NaNWrites(writes) = {} THEN writes
    ELSE SubSeq(writes, 1, (CHOOSE i \in NaNWrites(writes) :
                               \A j \in NaNWrites(writes) : i <= j) - 1)

\* This init() makes the context.
Made == ctx = "null" /\ CtxAfterInit # "null"

\* init() that makes the context and ends in the TypeError of restoreState:
\* the context and the routing are there, the writes up to the NaN made.
initAborted ==
    LET writes == Done(setupRoutingWrites \o restoreStateWrites)
    IN  /\ ctx' = CtxAfterInit
        /\ graph' = GraphAfterInit
        /\ threw' = TRUE
        /\ paramWrites' = writes
        /\ busGains' = GainsAfter(setupRoutingGains, writes)
        /\ drumChain' = ChainAfterPush(busState, NewFXChain)
        /\ chainDelay' = DelayAfter(NewDelay, writes)
        /\ UNCHANGED <<backend, now, isPlaying, currentStepIndex, nextNoteTime, timerID,
                       timers, tempo, pc, scheduled, errors, nUpdates, playVars,
                       triggerVars, soundVars, cacheVars, busState, lastStep, fnVars>>

InitAborts == Made /\ NaNWrites(setupRoutingWrites \o restoreStateWrites) # {}

\* init() called by the application.
initRestore == IF InitAborts THEN initAborted /\ UNCHANGED lastCall ELSE initBus

\* start(): its init() builds the graph and restores the stored state when
\* it makes the context; an exception of init() leaves start() too.
startBus ==
    LET writes == IF Made THEN setupRoutingWrites \o restoreStateWrites ELSE <<>>
    IN  /\ start
        /\ Called("start")
        /\ paramWrites' = writes
        /\ busGains' = IF Made THEN GainsAfter(setupRoutingGains, writes) ELSE busGains
        /\ drumChain' = IF Made THEN ChainAfterPush(busState, NewFXChain) ELSE drumChain
        /\ chainDelay' = IF Made THEN DelayAfter(NewDelay, writes) ELSE chainDelay
        /\ UNCHANGED <<backend, now, nUpdates, triggerVars, soundVars,
                       cacheVars, busState, lastStep, fnVars>>

startRestore == IF InitAborts THEN initAborted /\ Called("start") ELSE startBus

\* updateState: with a context, a NaN among its writes ends it there.
updateStateRestore(S) ==
    LET stored == [busState EXCEPT !.synths = S.synths, !.drums = S.drums]
        writes == PushWrites(stored, busGains, drumChain, "setTargetAtTime", "updateState")
    IN  IF ctx # "null" /\ NaNWrites(writes) # {}
          THEN /\ busState' = stored
               /\ paramWrites' = Done(writes)
               /\ busGains' = GainsAfter(busGains, Done(writes))
               /\ drumChain' = ChainAfterPush(stored, drumChain)
               /\ chainDelay' = DelayAfter(chainDelay, Done(writes))
               /\ lastStep' = NoStep
               /\ threw' = TRUE
               /\ UNCHANGED <<calmVars, triggerVars, soundVars, cacheVars, fnVars>>
          ELSE updateStateBus(S)

RestorePushes ==
    BusPushes \cup
      (IF busState.drums = <<>> THEN {}
       ELSE {[synths |-> busState.synths,
              drums |-> [busState.drums EXCEPT ![1].effects.delayTime = v]] :
                 v \in {Num(25), Num(50), NaNValue}})

\* The calls of the application, each made when no handler is running.
PushRestore == pc = "idle" /\ \E S \in RestorePushes : updateStateRestore(S)
VolumeRestore == pc = "idle" /\ CallSetMasterVolumeBus
InitRestore == pc = "idle" /\ initRestore
StartRestore == pc = "idle" /\ startRestore

NextRestore ==
    \/ PushRestore
    \/ VolumeRestore
    \/ InitRestore
    \/ StartRestore
    \/ schedulerLoop
    \/ schedulerRearm

SpecRestore == InitRebuild /\ [][NextRestore]_vars

\* ------------------------------------------------------------------ claims

SameTempo(j, k) == \A m \in j..k : scheduled[m].tempo = scheduled[j].tempo

\* C1: at a constant tempo every scheduled step advances nextNoteTime by
\* exactly one step duration, so the n-th step scheduled since start() gets
\* the first trigger time plus n step durations, however late or irregularly
\* the lookahead loop runs.
C1_TriggerTimesOnGrid ==
    \A j \in 1..Len(scheduled) : \A k \in j..Len(scheduled) :
        SameTempo(j, k) =>
            /\ scheduled[k].time
                 = scheduled[j].time + (k - j) * StepDuration(scheduled[j].tempo)
            /\ k = Len(scheduled) =>
                 nextNoteTime = scheduled[j].time
                                  + (k - j + 1) * StepDuration(scheduled[j].tempo)

\* The loop runs so late that the next trigger time is already past, after
\* four steps at one positive tempo.
C1_Witness ==
    /\ pc = "sched"
    /\ Len(scheduled) >= 4
    /\ SameTempo(1, Len(scheduled))
    /\ scheduled[1].tempo > 0
    /\ nextNoteTime < now

\* C2: currentStepIndex is always in 0..15, and the indices handed to
\* scheduleStep within a session are 0,1,...,15,0,1,... with none skipped or
\* repeated.
C2_IndexCycles ==
    /\ currentStepIndex \in 0..(StepsPerPattern - 1)
    /\ \A k \in 1..Len(scheduled) : scheduled[k].idx = (k - 1) % StepsPerPattern
    /\ currentStepIndex = Len(scheduled) % StepsPerPattern

\* A session at positive tempo that has gone once round the pattern.
C2_Witness ==
    /\ Len(scheduled) >= StepsPerPattern + 1
    /\ scheduled[StepsPerPattern + 1].idx = 0
    /\ \A k \in 1..Len(scheduled) : scheduled[k].tempo > 0

\* C3: start() while the engine is playing changes neither currentStepIndex
\* nor nextNoteTime, schedules no step and creates no second loop or timer.
C3_StartWhilePlayingNoOp ==
    /\ [](Cardinality(timers) <= 1)
    /\ [][(CallStart /\ isPlaying) =>
            UNCHANGED <<isPlaying, currentStepIndex, nextNoteTime, scheduled,
                        timerID, timers, pc>>]_vars

\* start() has just been called on a playing engine with its timer pending.
C3_Witness ==
    /\ lastCall.op = "start"
    /\ lastCall.wasPlaying
    /\ ctx = "running"
    /\ timers # {}
    /\ Len(scheduled) > 0

\* C4: stop() while the engine is stopped leaves isPlaying false, leaves no
\* timer, and changes nothing else of the engine's state.
C4_StopWhileStoppedNoOp ==
    [][(CallStop /\ ~isPlaying) =>
         /\ UNCHANGED <<engineVars, scheduled>>
         /\ ~isPlaying'
         /\ timers' = {}]_vars

\* stop() has just been called on an engine stopped in the middle of a pattern.
C4_Witness ==
    /\ lastCall.op = "stop"
    /\ ~lastCall.wasPlaying
    /\ ~isPlaying
    /\ currentStepIndex # 0
    /\ Len(scheduled) > 0

\* C5: without an audio backend the engine stays inert: start() and stop()
\* return normally, isPlaying stays false, and the failure is reported once.
C5_InertWithoutBackend ==
    ~backend => (~isPlaying /\ ~threw /\ errors <= 1)

\* C6: for every tempo pushed on track 0 the step duration the scheduler
\* uses is strictly positive, so a tick's loop ends and nextNoteTime never
\* decreases.
C6_StepDurationPositive ==
    /\ pc = "sched" => StepDuration(MasterTempo(tempo)) > 0
    /\ \A k \in 1..(Len(scheduled) - 1) : scheduled[k].time < scheduled[k + 1].time
    /\ scheduled # <<>> => scheduled[Len(scheduled)].time < nextNoteTime

\* C7: updateState alters neither nextNoteTime nor the trigger times already
\* handed out; every step's distance from its predecessor is the step
\* duration of the tempo in force when the predecessor was scheduled.
C7_TempoNotRetroactive ==
    /\ [](\A k \in 1..(Len(scheduled) - 1) :
            scheduled[k + 1].time = scheduled[k].time + StepDuration(scheduled[k].tempo))
    /\ [](scheduled # <<>> =>
            nextNoteTime = scheduled[Len(scheduled)].time
                             + StepDuration(scheduled[Len(scheduled)].tempo))
    /\ [][CallUpdateState =>
            UNCHANGED <<scheduled, nextNoteTime, currentStepIndex>>]_vars
    /\ [][\/ scheduled' = scheduled
          \/ scheduled' = <<>>
          \/ /\ Len(scheduled') = Len(scheduled) + 1
             /\ SubSeq(scheduled', 1, Len(scheduled)) = scheduled]_vars

\* updateState has just changed the tempo in the middle of a session.
C7_Witness ==
    /\ lastCall.op = "updateState"
    /\ isPlaying
    /\ Len(scheduled) >= 2
    /\ MasterTempo(tempo) # scheduled[Len(scheduled)].tempo

\* C8: start() of a stopped engine that has an audio context sets
\* currentStepIndex to 0 and nextNoteTime to now + 0.1 s, so the first step of
\* every session is step 0 at that time, also after a session that stopped
\* elsewhere in the pattern.
C8_StartResets ==
    /\ [][(~isPlaying /\ isPlaying' /\ ctx' # "null") =>
            /\ currentStepIndex' = 0
            /\ nextNoteTime' = now + StartLatency
            /\ scheduled' = <<>>]_vars
    /\ [][(scheduled = <<>> /\ scheduled' # <<>>) =>
            /\ scheduled'[1].idx = 0
            /\ scheduled'[1].time = now + StartLatency]_vars

\* A restart: start() found the engine stopped at an index other than 0.
C8_Witness ==
    /\ lastCall.op = "start"
    /\ ~lastCall.wasPlaying
    /\ lastCall.wasIndex # 0
    /\ Len(scheduled) > 0
    /\ scheduled[1].idx = 0

\* C9: stop() does not touch the steps already scheduled and leaves the
\* engine not playing, and while it is not playing no step is scheduled.
C9_NoTriggerAfterStop ==
    /\ [][(CallStop \/ (CallToggle /\ isPlaying)) =>
            (scheduled' = scheduled /\ ~isPlaying')]_vars
    /\ [][~isPlaying => Len(scheduled') <= Len(scheduled)]_vars

\* Stopped in mid-session, and the time of the next step has come and gone.
C9_Witness ==
    /\ ~isPlaying
    /\ lastCall.op = "none"
    /\ Len(scheduled) > 0
    /\ nextNoteTime < now
    /\ timers = {}

\* C10: for every step and every automatable key the value used at the
\* trigger is the step's override when the key is present, an override of 0
\* included, and otherwise the track's global value of that parameter.
C10_OverrideElseGlobal ==
    \A key \in DOMAIN voice :
        voice[key] = IF key \in DOMAIN trigStep
                       THEN trigStep[key]
                       ELSE IF trigKind = "bass"
                              THEN getGlobalValue(trigGlobals, key)
                              ELSE getGlobalValueDrum(trigGlobals, key)

\* A vector createPeriodicWave accepts: not empty, every amplitude finite or NaN.
Buildable(h) == Len(h) >= 1 /\ \A i \in 1..Len(h) : h[i] # Infinity

\* The oscillator plays the given vector, or the sawtooth when no wave can
\* be built from it.
PlaysVector(o, h) ==
    IF Buildable(h) THEN o = [type |-> "custom", wave |-> Wave(ImagOf(h))]
                    ELSE o = Sawtooth

\* The oscillator plays the named shape: a native shape, or for 'custom' the
\* track's global vector (anything while a rebuild of it is still pending).
PlaysShape(o, shape, g) ==
    IF shape = "custom"
      THEN customWaveUpdatePending \/ PlaysVector(o, g.customWave)
      ELSE o = [type |-> shape, wave |-> NoWave]

\* C11: a bass trigger resolves its waveform by priority: a non-empty
\* harmonic vector of the step is used whatever shape the step or the track
\* names; else the shape the step names is used; else the track's global
\* shape, in additive mode with the track's global vector.
C11_WaveformPriority ==
    [][TriggerWave =>
         LET a == trigStep'
             g == trigGlobals.params
         IN  IF "customWave" \in DOMAIN a /\ Len(a.customWave) > 0
               THEN PlaysVector(osc', a.customWave)
               ELSE IF "waveShape" \in DOMAIN a
                      THEN PlaysShape(osc', a.waveShape, g)
                      ELSE PlaysShape(osc', g.waveShape, g)]_vars

\* A wave the oscillator can play: built, with finite numbers only.
Playable(w) == w.ok /\ \A i \in 1..Len(w.imag) : w.imag[i].k = "num"

\* C15: an empty or unbuildable harmonic vector, of the step or of the
\* track, never fails a trigger: the trigger sets up an oscillator, which is
\* the sawtooth when the step's vector cannot be built and when the additive
\* shape is resolved while no global wave is built; no unplayable wave is
\* ever cached or handed to an oscillator.
C15_HarmonicsFailSoft ==
    /\ [](periodicWaveCaches.ok => Playable(periodicWaveCaches))
    /\ []((~customWaveUpdatePending /\ lastCustomWaves.set
             /\ ~Buildable(lastCustomWaves.h)) => ~periodicWaveCaches.ok)
    /\ [][TriggerWave =>
            LET a == trigStep'
                stepVector == "customWave" \in DOMAIN a /\ Len(a.customWave) > 0
                shape == IF "waveShape" \in DOMAIN a THEN a.waveShape
                                                     ELSE trigGlobals.params.waveShape
            IN  /\ threw' = threw
                /\ osc'.type \in WaveShapes
                /\ osc'.type = "custom" => Playable(osc'.wave)
                /\ (stepVector /\ ~Buildable(a.customWave)) => osc' = Sawtooth
                /\ (~stepVector /\ shape = "custom" /\ ~periodicWaveCaches.ok)
                      => osc' = Sawtooth]_vars

\* A step that names the square shape and carries a vector no wave can be
\* built from has been triggered on a track in additive mode whose global
\* vector is empty.
C15_Witness ==
    /\ osc = Sawtooth
    /\ "customWave" \in DOMAIN trigStep
    /\ Len(trigStep.customWave) > 0
    /\ ~Buildable(trigStep.customWave)
    /\ "waveShape" \in DOMAIN trigStep
    /\ trigStep.waveShape = "square"
    /\ trigGlobals.params.waveShape = "custom"
    /\ trigGlobals.params.customWave = <<>>
    /\ ~customWaveUpdatePending
    /\ ~threw

\* C12: the gain set on the chain's delay feedback node is at most 0.95
\* whatever percentage it is made from, on the updateState path and on the
\* per-step path.
C12_FeedbackBelowUnity ==
    ~isNaN(chain.delayFeedback) /\ chain.delayFeedback.v <= 9500

\* The amplitude left of a pulse of 10000 after n passes through the
\* feedback gain g of the delay loop (delayNode -> delayFeedbackNode ->
\* delayNode), rounded down on every pass.
RECURSIVE Recirculate(_, _)
Recirculate(g, n) == IF n = 0 THEN 10000 ELSE (Recirculate(g, n - 1) * g) \div 10000

\* C13: when the feedback percentage last written is in 0..100, the loop
\* gain is between 0 and 0.95 and the amplitude of a signal going round the
\* delay loop does not grow from one cycle to the next.
C13_LoopGainStable ==
    (fxCall.path # "none" /\ ~isNaN(fxCall.feedback)
       /\ fxCall.feedback.v >= 0 /\ fxCall.feedback.v <= 100)
      => /\ ~isNaN(chain.delayFeedback)
         /\ chain.delayFeedback.v >= 0
         /\ chain.delayFeedback.v <= 9500
         /\ \A n \in 0..(MaxCycles - 1) :
               /\ Recirculate(chain.delayFeedback.v, n + 1)
                    <= Recirculate(chain.delayFeedback.v, n)
               /\ Recirculate(chain.delayFeedback.v, n + 1) >= 0

\* updateState has pushed the largest feedback in range, 100.
C13_Witness ==
    /\ fxCall = [path |-> "update", feedback |-> Num(100)]
    /\ chain.delayFeedback = Num(9500)
    /\ Recirculate(chain.delayFeedback.v, MaxCycles) > 0

\* C14: a NaN in a pushed parameter, in the master volume or in a step's
\* override is replaced by a default before it is used: no call ends in an
\* exception and every value kept for or set on a node is a number.
C14_NoNaNReachesGraph ==
    /\ ~threw
    /\ \A f \in DOMAIN chain : ~isNaN(chain[f])
    /\ \A f \in DOMAIN master : ~isNaN(master[f])
    /\ \A f \in DOMAIN voiceGraph : ~isNaN(voiceGraph[f])

\* The per-track effect chains that exist.
ChainInstances ==
    {graph.synthChains[i] : i \in DOMAIN graph.synthChains}
      \cup {graph.drumChains[i][t] : i \in DOMAIN graph.drumChains, t \in DrumTypes}

\* C20: once init() has made the audio context, every further init(), called
\* directly or by start(), leaves the context, the master bus and all chains
\* the same instances, and there are exactly 12 per-track chains, 2 bass and
\* 10 percussion.
C20_InitIdempotent ==
    /\ [][ctx # "null" => graph' = graph]_vars
    /\ [](ctx # "null" =>
            /\ graph.gen = 1
            /\ Len(graph.synthChains) = 2
            /\ Len(graph.drumChains) = 2
            /\ Cardinality(ChainInstances) = 12)
    /\ [](ctx = "null" => graph = NoGraph)

\* init() has been called on an engine that was already playing.
C20_Witness ==
    /\ lastCall.op = "init"
    /\ lastCall.wasPlaying
    /\ ctx = "running"
    /\ Len(scheduled) > 0
    /\ Cardinality(ChainInstances) = 12

\* The triggers of one voice among the scheduleStep calls numbered in S.
TriggersOf(voiceName, tr, S) ==
    {n \in 1..Len(triggers) :
        /\ triggers[n].voice = voiceName
        /\ triggers[n].track = tr
        /\ triggers[n].seq \in S}

\* The scheduleStep calls that begin a cycle all of whose 16 steps are scheduled.
CycleStarts ==
    {c \in 1..Len(scheduled) :
        scheduled[c].idx = 0 /\ c + StepsPerPattern - 1 <= Len(scheduled)}
CycleOf(c) == c..(c + StepsPerPattern - 1)

\* The bass triggers of one track, in the order they were made.
BassTriggers(tr) ==
    SelectSeq(triggers, LAMBDA g : g.voice = "bass" /\ g.track = tr)

\* C16: at tempo 120 a melodic track active exactly on steps 0, 4, 8 and 12
\* gets exactly 4 bass triggers in every cycle of 16 steps, and consecutive
\* triggers of the track are exactly 500 ms apart.
C16_FourTriggersPerCycle ==
    \A tr \in 1..Len(synths) :
       (MasterTempo(tempo) = 120
          /\ {k \in 0..(StepsPerPattern - 1) : synths[tr][k + 1]} = {0, 4, 8, 12})
         => /\ \A c \in CycleStarts : Cardinality(TriggersOf("bass", tr, CycleOf(c))) = 4
            /\ \A n \in 1..(Len(BassTriggers(tr)) - 1) :
                  BassTriggers(tr)[n + 1].time - BassTriggers(tr)[n].time = 500

\* C17: on every scheduled step, for every drum machine, each instrument is
\* triggered exactly once if its lane is active on that step and not at all
\* otherwise, so that a cycle triggers each instrument as often as its lane
\* has active steps: 4 BD, 2 SD and 8 CH for the default pattern.
C17_DrumLanesTriggered ==
    \A j \in 1..Len(drums) : \A t \in DrumTypes :
       /\ \A k \in 1..Len(scheduled) :
             Cardinality(TriggersOf(t, j, {k}))
               = IF drums[j][t][scheduled[k].idx + 1] THEN 1 ELSE 0
       /\ \A c \in CycleStarts :
             Cardinality(TriggersOf(t, j, CycleOf(c)))
               = Cardinality({k \in 1..StepsPerPattern : drums[j][t][k]})
       /\ drums[j] = DefaultDrumPattern =>
             \A c \in CycleStarts :
                /\ Cardinality(TriggersOf("BD", j, CycleOf(c))) = 4
                /\ Cardinality(TriggersOf("SD", j, CycleOf(c))) = 2
                /\ Cardinality(TriggersOf("CH", j, CycleOf(c))) = 8

\* C18: every scheduled step triggers the active voices of all tracks at the
\* step's time, with a listener for the step-advance notification or
\* without one, and whether the notification is delivered or dropped.
C18_TriggersNeedNoListener ==
    \A k \in 1..Len(scheduled) : \A i \in 1..Len(Voices) :
       Active(Voices[i], scheduled[k].idx)
         => \E n \in TriggersOf(Voices[i].voice, Voices[i].track, {k}) :
               triggers[n].time = scheduled[k].time

\* C19: a notification is delivered at or after the trigger time of its
\* step, at most once per scheduled step, and the notifications of one
\* session are delivered in the order their steps were scheduled.
C19_NotificationTimely ==
    /\ \A n \in 1..Len(notified) : notified[n].at >= notified[n].time
    /\ \A m, n \in 1..Len(notified) :
          (m < n /\ notified[m].session = notified[n].session)
            => notified[m].seq < notified[n].seq

\* A notification of a stopped session was delivered after one of the
\* session that followed it, a notification was delivered late, and one of
\* a step that was already due when it was scheduled.
C19_Witness ==
    /\ \E m, n \in 1..Len(notified) :
          m < n /\ notified[m].session > notified[n].session
    /\ \E n \in 1..Len(notified) : notified[n].at > notified[n].time
    /\ \E n \in 1..Len(notified) :
          notified[n].seq <= Len(scheduled) /\ notified[n].session = session
            /\ notified[n].time < notified[n].at
    /\ Len(notified) >= 6

\* The pending rebuild timers of one track.
PendingRebuilds(rt, i) == {k \in 1..Len(rt) : rt[k].index = i}

\* C21: a rebuild is committed only when no edit of the track's global
\* vector arrived during the RebuildDelay ms before it, and it uses the
\* vector of the latest edit.
C21_DebouncedLatest ==
    \A i \in Tracks :
       lastCommit[i].vec # NoVec
         => /\ lastCommit[i].quiet >= RebuildDelay
            /\ lastCommit[i].vec = lastCommit[i].latest

\* C22: no melodic track ever has more than one pending rebuild timer.
C22_OnePendingRebuild ==
    \A i \in Tracks : Cardinality(PendingRebuilds(rebuildTimers, i)) <= 1

\* Both tracks have a rebuild pending, and one of them got a newer vector
\* when its timer was already due.
C22_Witness ==
    /\ \A i \in Tracks : Cardinality(PendingRebuilds(rebuildTimers, i)) = 1
    /\ \E k \in 1..Len(rebuildTimers) :
          /\ rebuildTimers[k].remaining = 0
          /\ lastEdit[rebuildTimers[k].index].age = 0
          /\ rebuildState.pendingHarmonics[rebuildTimers[k].index] = 2

\* All waves got from one array object are one PeriodicWave, made once.
BuiltOnce ==
    /\ \A v \in VecIds : builds[v] <= 1
    /\ \A v \in DOMAIN waveCache : waveCache[v].of = v /\ builds[v] = 1
    /\ stepWave.wave.ok => stepWave.wave = waveCache[stepWave.vec]
    /\ \A i \in Tracks :
          rebuildState.periodicWaveCaches[i].ok
            => rebuildState.periodicWaveCaches[i]
                 = waveCache[rebuildState.periodicWaveCaches[i].of]

\* An updateState that changes params and keeps the vector object of track i.
KeepsVector(i) ==
    /\ synthParams # <<>>
    /\ synthParams' # synthParams
    /\ synthParams'[i].customWave = synthParams[i].customWave

\* No rebuild is scheduled for track i and its cached wave stays.
NoRebuild(i) ==
    /\ PendingRebuilds(rebuildTimers', i) = PendingRebuilds(rebuildTimers, i)
    /\ rebuildState'.customWaveUpdatePending[i] = rebuildState.customWaveUpdatePending[i]
    /\ rebuildState'.pendingHarmonics[i] = rebuildState.pendingHarmonics[i]
    /\ rebuildState'.periodicWaveCaches[i] = rebuildState.periodicWaveCaches[i]

\* C23, as claimed: waves are cached by array object, built once per
\* object, and an updateState that keeps a track's vector object schedules
\* no rebuild and leaves the track's cached wave in place, whatever else of
\* the params it changes.
C23_CachedByIdentity ==
    /\ []BuiltOnce
    /\ [][\A i \in Tracks : KeepsVector(i) => NoRebuild(i)]_vars

\* C23, amended: the same, for an updateState that does not switch the
\* track's shape to 'custom'; the switch to 'custom' hands the vector to
\* the rebuild timer although the object is the same.
C23_CachedByIdentityUnlessSwitched ==
    /\ []BuiltOnce
    /\ [][\A i \in Tracks :
            (KeepsVector(i) /\ (synthParams[i].waveShape = "custom"
                                  \/ synthParams'[i].waveShape # "custom"))
              => NoRebuild(i)]_vars

\* Track 1 plays its cached wave of array 1 with the cutoff changed since,
\* a step with array 1 of its own got the same wave, and array 2, of equal
\* content, has a wave of its own.
C23_Witness ==
    /\ synthParams # <<>>
    /\ synthParams[1] = [waveShape |-> "custom", customWave |-> 1, cutoff |-> 60]
    /\ rebuildState.periodicWaveCaches[1].ok
    /\ rebuildState.periodicWaveCaches[1].of = 1
    /\ rebuildTimers = <<>>
    /\ stepWave.vec = 1
    /\ stepWave.wave = rebuildState.periodicWaveCaches[1]
    /\ builds = [v \in VecIds |-> 1]
    /\ waveCache[1] # waveCache[2]

StepWrites == {i \in 1..Len(paramWrites) : paramWrites[i].path = "step"}
AutomationTargets == {"delayDry", "delayWet", "delayTime", "delayFeedback", "curve"}

\* C25: the delay and distortion automation of a step takes effect on the
\* track's chain exactly at the step's trigger time, and not at the earlier
\* moment when the step is scheduled inside the lookahead window.
C25_AutomationAtTriggerTime ==
    \A i \in StepWrites :
        paramWrites[i].target \in AutomationTargets
            => paramWrites[i].at = paramWrites[i].time

DelayAutomationAtTriggerTime ==
    \A i \in StepWrites :
        paramWrites[i].target \in AutomationTargets \ {"curve"}
            => paramWrites[i].at = paramWrites[i].time

BypassedAtZero == drumChain.requested = Num(0) => drumChain.curve = NullCurve
RebuiltOnlyBeyondThreshold ==
    [][(drumChain'.curve # NullCurve
          /\ (drumChain'.lastDistortionValue # drumChain.lastDistortionValue
                \/ drumChain'.curve # drumChain.curve))
         => DriveChanged(drumChain, drumChain'.requested)]_vars

\* C26: after any sequence of update and setDistortion calls the waveshaper
\* has no curve whenever the drive last asked for is 0, and a call remakes
\* the curve only when the drive it asks for differs from the drive last
\* applied by more than 0.1.
C26_BypassedAtZeroDrive == []BypassedAtZero /\ RebuiltOnlyBeyondThreshold

GainPaths == {"setMasterVolume", "updateState", "restoreState", "step"}
GainChanges ==
    {i \in 1..Len(paramWrites) :
        /\ paramWrites[i].target \in GainTargets
        /\ paramWrites[i].path \in GainPaths
        /\ paramWrites[i].value # paramWrites[i].from}

\* C27: every change of the master volume and of a bus or track output
\* gain is a ramp toward the target, never a step, whichever path writes
\* it: setMasterVolume, updateState, restoreState at init, or the volume of
\* a drum step.
C27_GainChangesRamped ==
    \A i \in GainChanges : paramWrites[i].method = "setTargetAtTime"

RampedOutsideRestore ==
    \A i \in GainChanges :
        paramWrites[i].path # "restoreState"
            => paramWrites[i].method = "setTargetAtTime"

HarmonicCalled == fnResult.fn = "getEffectiveHarmonic"
Shape == IF fnArgs.shape = "undefined" THEN "sawtooth" ELSE fnArgs.shape

\* C28: the square shape resolves harmonic i of 0..63 to 1/(i+1) when i is
\* even and to 0 when i is odd, and the sawtooth to 1/(i+1) for every i;
\* the presets of the harmonic editor fill a vector with the same values.
C28_SquareAndSawHarmonics ==
    /\ HarmonicCalled /\ Shape = "square" /\ fnArgs.index % 2 = 0
         => fnResult.value = [n |-> 1, d |-> fnArgs.index + 1]
    /\ HarmonicCalled /\ Shape = "square" /\ fnArgs.index % 2 = 1
         => fnResult.value.n = 0
    /\ HarmonicCalled /\ Shape = "sawtooth"
         => fnResult.value = [n |-> 1, d |-> fnArgs.index + 1]
    /\ fnResult.fn = "generateSquare"
         => \A i \in 0..(WAVE_RESOLUTION - 1) :
               fnResult.value[i + 1] = IF i % 2 = 0 THEN [n |-> 1, d |-> i + 1]
                                                    ELSE [n |-> 0, d |-> 1]
    /\ fnResult.fn = "generateSaw"
         => \A i \in 0..(WAVE_RESOLUTION - 1) :
               fnResult.value[i + 1] = [n |-> 1, d |-> i + 1]

C28_Witness ==
    /\ HarmonicCalled
    /\ fnArgs.shape = "square"
    /\ fnArgs.index = WAVE_RESOLUTION - 1
    /\ fnResult.value.n = 0

FrequencyCalled == fnResult.fn = "getFrequency"
Pitch(note, octave) == octave * 12 + indexOf(note)

\* C29: over the 12 notes and octaves 1..3 the frequency is strictly
\* increasing in octave*12 + semitone index, one octave up is exactly twice
\* the frequency, and C of octave 1 is the base of 32.703 Hz.
C29_FrequencyMonotoneAndDoubling ==
    FrequencyCalled =>
        /\ Pitch(fnArgs.note, fnArgs.octave) < Pitch(fnArgs.note2, fnArgs.octave2)
             => fnResult.value < fnResult.value2
        /\ fnArgs.note = fnArgs.note2 /\ fnArgs.octave2 = fnArgs.octave + 1
             => fnResult.value2 = 2 * fnResult.value
        /\ fnArgs.note = "C" /\ fnArgs.octave = 1 => fnResult.value = 32703000

C29_Witness ==
    /\ FrequencyCalled
    /\ fnArgs.note = "C" /\ fnArgs.octave = 1
    /\ fnArgs.note2 = "C" /\ fnArgs.octave2 = 2
    /\ fnResult.value2 = 2 * fnResult.value

StepScheduled == Len(scheduled') = Len(scheduled) + 1
TickReturns == pc = "sched" /\ pc' = "idle"
TriggerTimeInWindow ==
    [][StepScheduled =>
         /\ scheduled'[Len(scheduled')].time >= now
         /\ scheduled'[Len(scheduled')].time < now + Lookahead]_vars
NotBeyondHorizon ==
    [][StepScheduled => scheduled'[Len(scheduled')].time < now + Lookahead]_vars
HorizonCovered == [][TickReturns => nextNoteTime' >= now + Lookahead]_vars

\* C30: a tick of the lookahead loop schedules exactly the steps whose
\* trigger time lies in [now, now + 250 ms): no step is handed a trigger time
\* earlier than the audio clock at the moment it is scheduled, however late
\* the loop fires, and when the tick returns nextNoteTime is at least
\* now + 250 ms.
C30_StepsWithinLookaheadWindow == TriggerTimeInWindow /\ HorizonCovered

Overridden(key) == lastStep.active /\ key \in DOMAIN lastStep.automation
GlobalEffects == busState.drums[1].effects
GlobalCurve ==
    IF isNaN(GlobalEffects.distortion) \/ GlobalEffects.distortion.v <= 0
      THEN NullCurve ELSE Times(GlobalEffects.distortion, 5)
DelayAtGlobal ==
    /\ ~Overridden("delayMix") =>
         /\ chainDelay.delayWet = scheduleDelayMix(GlobalEffects.delayMix)
         /\ chainDelay.delayDry = OneMinus(scheduleDelayMix(GlobalEffects.delayMix))
    /\ ~Overridden("delayTime") =>
         chainDelay.delayTime = scheduleDelayTime(GlobalEffects.delayTime)
    /\ ~Overridden("delayFeedback") =>
         chainDelay.delayFeedback = scheduleDelayFeedback(GlobalEffects.delayFeedback)
VolumeAtGlobal ==
    ~Overridden("volume") => busGains.drumOutput = busState.drums[1].volBD.v
CurveAtGlobal == ~Overridden("distortion") => drumChain.curve = GlobalCurve

\* C31: an override on the track's chain lasts for the step that carries
\* it: once the next step has been scheduled, active or not, the delay mix,
\* time and feedback, the distortion curve and the output volume of the
\* chain are at the track's global values from that step's time on, unless
\* that step overrides them itself.
C31_OverrideLastsOneStep ==
    lastStep # NoStep => DelayAtGlobal /\ VolumeAtGlobal /\ CurveAtGlobal

AfterActiveStep == lastStep.active => DelayAtGlobal /\ VolumeAtGlobal

DecayCalled == fnResult.fn = "decayTime"
AccentNeverLonger == DecayCalled => fnResult.accentedTime <= fnResult.plainTime
AccentShortens == DecayCalled => fnResult.accented * 10 = fnResult.plain * 7

\* C32: for every decay setting in 0..100 the accent flag shortens the
\* decay of the filter envelope by 30%, and the decay time of the accented
\* step is never longer than that of the same step without accent.
C32_AccentShortensDecay == AccentShortens /\ AccentNeverLonger

BuilderCalled == fnResult.fn = "createPeriodicWaveFromHarmonics" /\ fnResult.ctx # "null"
Finite(h) == \A i \in 1..Len(h) : h[i] # Infinity
Bin(a, k) == IF k + 1 <= Len(a) THEN a[k + 1] ELSE Num(0)
ZeroPadded(h) == h \o [i \in 1..(WAVE_RESOLUTION - Len(h)) |-> Num(0)]
PaddedImag(h) ==
    <<Num(0)>> \o [i \in 1..WAVE_RESOLUTION |->
                     IF ZeroPadded(h)[i] = NaNValue THEN Num(0) ELSE ZeroPadded(h)[i]]

\* C33: with a context the wave builder turns a vector h of n >= 1 finite
\* or NaN entries into a descriptor of length n + 1 whose bin 0 is 0, whose
\* bin k + 1 holds h[k], 0 for a NaN, and whose real part is all zero; bin
\* for bin it is the descriptor of h padded with zeros to 64 entries.
C33_DescriptorFromHarmonics ==
    BuilderCalled /\ Finite(fnArgs.h) =>
        /\ fnResult.wave.ok
        /\ Len(fnResult.wave.imag) = Len(fnArgs.h) + 1
        /\ fnResult.wave.imag[1] = Num(0)
        /\ \A k \in 0..(Len(fnArgs.h) - 1) :
              fnResult.wave.imag[k + 2]
                = IF fnArgs.h[k + 1] = NaNValue THEN Num(0) ELSE fnArgs.h[k + 1]
        /\ Len(fnResult.real) = Len(fnArgs.h) + 1
        /\ \A k \in 1..Len(fnResult.real) : fnResult.real[k] = Num(0)
        /\ \A k \in 0..WAVE_RESOLUTION :
              Bin(fnResult.wave.imag, k) = Bin(PaddedImag(fnArgs.h), k)

C33_Witness ==
    /\ BuilderCalled
    /\ Len(fnArgs.h) = 2
    /\ fnArgs.h[1] = NaNValue
    /\ fnArgs.h[2] = Num(2)
    /\ fnResult.wave.imag = <<Num(0), Num(0), Num(2)>>

DrumPlayed == fnResult.fn = "playDrum"

\* C34: every drum voice, in both kits, scales each oscillator frequency
\* and each playback rate it sets by the one pitch multiplier
\* 2^(tuning/1200 * 12).
C34_OneTuningFormula ==
    DrumPlayed => \A f \in fnResult.frequencies : f.cents = fnArgs.tuning * 12

TunedOutsideHatsAndClick ==
    DrumPlayed /\ fnArgs.program \in {"SD", "CP"}
        => \A f \in fnResult.frequencies : f.cents = fnArgs.tuning * 12

GeneratorCalled == fnResult.fn = "generateAcidPattern"

\* C35: every pattern the generator returns, on every path and for every
\* response length, has exactly 16 melodic steps and exactly 16 steps in
\* each of the five drum lanes.
C35_AlwaysSixteenSteps ==
    GeneratorCalled =>
        /\ Len(fnResult.value.steps) = 16
        /\ \A l \in DrumLanes : Len(fnResult.value.drums[l]) = 16

NeverMoreThanSixteen ==
    GeneratorCalled =>
        /\ Len(fnResult.value.steps) <= 16
        /\ \A l \in DrumLanes : Len(fnResult.value.drums[l]) <= 16

SixteenOffTheSuccessPath ==
    GeneratorCalled /\ (~fnArgs.apiKey \/ fnArgs.outcome # "text")
        => fnResult.value = Defaults

TimerPending == \E t \in timers : t.id = timerID

ShortPatternPushed ==
    \E v \in {Voices[i] : i \in 1..Len(Voices)} : Len(StepsOf(v)) < StepsPerPattern

\* C36: a scheduler tick never aborts on a pushed pattern: the steps a short
\* melodic pattern or drum lane lacks count as inactive, every pass of the
\* loop advances nextNoteTime and currentStepIndex, and the engine is never
\* left playing with no lookahead timer pending.
C36_TickNeverAborts ==
    /\ [](isPlaying /\ pc = "idle" => TimerPending)
    /\ [][pc = "sched" /\ nextNoteTime < now + Lookahead
            => /\ nextNoteTime' > nextNoteTime
               /\ currentStepIndex' = (currentStepIndex + 1) % StepsPerPattern]_vars

\* The half of it that holds: a melodic pattern's missing steps are inactive.
ShortMelodicPatternTolerated ==
    (\A i \in 1..Len(Voices) :
        Voices[i].voice # "bass" => Len(StepsOf(Voices[i])) = StepsPerPattern)
      => (isPlaying /\ pc = "idle" => TimerPending)

C36_Stranded ==
    /\ ShortPatternPushed
    /\ isPlaying /\ pc = "idle" /\ ~TimerPending /\ threw

\* The scheduler loops alive: the pending lookahead timers, and the tick
\* that is running.
Loops == Cardinality(timers) + (IF pc = "sched" THEN 1 ELSE 0)

\* C37: with a working backend, after any sequence of init, start, stop and
\* toggle calls and timer firings at most one lookahead timer is pending,
\* one is pending or a tick is running exactly when isPlaying is true, and
\* a start() after a stop() never leaves two scheduler loops alive.
C37_OneLoopIffPlaying ==
    /\ Cardinality(timers) <= 1
    /\ (timers # {} \/ pc = "sched") <=> isPlaying
    /\ Loops <= 1
    /\ timers # {} => TimerPending

\* start() has just restarted an engine that was stopped in mid-pattern: the
\* only loop alive is the tick start() entered.
C37_Witness ==
    /\ lastCall.op = "start"
    /\ ~lastCall.wasPlaying
    /\ lastCall.wasIndex > 0
    /\ isPlaying
    /\ pc = "sched"
    /\ timers = {}

\* C38: a step-advance notification set during one playing session is never
\* delivered during a later one: every notification handed to the listener
\* carries a step scheduled since the last start().
C38_NoStaleNotification ==
    [][Len(notified') > Len(notified)
         => notified'[Len(notified')].session = session]_vars

\* Track i is in additive mode with array v as its global vector, pushed to
\* an engine that has its context.
CustomWith(i, v) ==
    /\ ctx # "null"
    /\ synthParams # <<>>
    /\ synthParams[i].waveShape = "custom"
    /\ synthParams[i].customWave = v

\* The track's cached wave is the one createPeriodicWaveFromHarmonics gives
\* for array v.
Installed(i, v) == rebuildState.periodicWaveCaches[i] = buildWave(ctx, v)

\* C39: once the edits of a track's global vector stop while the track is in
\* additive mode, the track's cached wave eventually is the one built from
\* the last vector pushed, and it stays so until the next edit.
C39_LastVectorInstalled ==
    /\ \A i \in Tracks : \A v \in VecIds :
          CustomWith(i, v) ~> (Installed(i, v) \/ ~CustomWith(i, v))
    /\ [][\A i \in Tracks : \A v \in VecIds :
            (CustomWith(i, v) /\ Installed(i, v) /\ CustomWith(i, v)')
              => Installed(i, v)']_vars

\* Track 1 had the wave of array 1, was edited to array 2 while a rebuild was
\* pending, and now plays the wave of array 2.
C39_Witness ==
    /\ CustomWith(1, 2)
    /\ Installed(1, 2)
    /\ rebuildState.periodicWaveCaches[1].ok
    /\ 1 \in DOMAIN waveCache
    /\ lastCommit[1].vec = 2
    /\ lastCommit[1].quiet < RebuildDelay

\* What the stored state asks of the graph: the master volume, the volumes
\* of the track and of the drum machine (their defaults for NaN), the delay
\* of the bass drum chain and the curve of its waveshaper.
AppliedGains(S) ==
    [masterGain |-> S.currentMasterVolume,
     synthOutput |-> IF S.synths = <<>> THEN 70
                     ELSE IF isNaN(S.synths[1].volume) THEN 70 ELSE S.synths[1].volume.v,
     drumMasterGain |-> IF S.drums = <<>> THEN 80
                        ELSE IF isNaN(S.drums[1].volume) THEN 80 ELSE S.drums[1].volume.v,
     drumOutput |-> IF S.drums = <<>> THEN 70
                    ELSE IF isNaN(S.drums[1].volBD) THEN 80 ELSE S.drums[1].volBD.v]

AppliedDelay(S) ==
    IF S.drums = <<>> THEN NewDelay
    ELSE LET e == S.drums[1].effects
         IN  [delayTime |-> MathMax(10, Times(e.delayTime, 10)),
              delayFeedback |-> Times(e.delayFeedback, 95),
              delayDry |-> OneMinus(Times(e.delayMix, 100)),
              delayWet |-> Times(e.delayMix, 100)]

AppliedCurve(S) ==
    IF S.drums = <<>> THEN NullCurve
    ELSE LET d == S.drums[1].effects.distortion
         IN  IF isNaN(d) \/ d.v <= 0 THEN NullCurve ELSE Times(d, 5)

\* C40: state pushed before the engine is initialised is not lost: when the
\* context is first made, the graph gets the volumes, effects and master
\* volume of the last updateState and setMasterVolume made before, and
\* start() on an engine never initialised initialises it itself.
C40_PushedStateRestored ==
    /\ [][(ctx = "null" /\ ctx' # "null")
            => /\ busState' = busState
               /\ busGains' = AppliedGains(busState)
               /\ chainDelay' = AppliedDelay(busState)
               /\ drumChain'.curve = AppliedCurve(busState)]_vars
    /\ [](isPlaying => ctx # "null" /\ graph # NoGraph /\ busGains # NoGains)
    /\ [][(StartRestore /\ ~isPlaying) => isPlaying']_vars

\* The part that holds: an init() that no NaN write ends restores all of it.
RestoredUnlessAborted ==
    [][(ctx = "null" /\ ctx' # "null" /\ ~threw')
         => /\ busState' = busState
            /\ busGains' = AppliedGains(busState)
            /\ chainDelay' = AppliedDelay(busState)
            /\ drumChain'.curve = AppliedCurve(busState)]_vars

==============================================================================
